---- MODULE Spec2Model ----
(***************************************************************************)
(* Payment-to-fulfilment flow of servidor-loja-digital.                    *)
(*                                                                         *)
(* Two programs are modelled.  Spec is server.js: the in-memory tracking   *)
(* store `pagamentos`, the handlers POST /criar-pagamento, POST /webhook,  *)
(* GET /status-pagamento/:id, GET /link-download/:id and the setInterval   *)
(* sweep.  SpecRoutes is src/routes.ts: POST /api/payments/criar-pagamento *)
(* and GET /api/payments/status-pagamento/:paymentId over the `pedidos`    *)
(* and `pedido_itens` tables.  The two never run in one process, so each   *)
(* specification leaves the other program's variables alone.               *)
(*                                                                         *)
(* SpecRetry is retryWithBackoff of routes.ts on its own.  SpecSweep,      *)
(* SpecRetention, SpecEndToEnd and SpecPolling are server.js again: from   *)
(* stores whose records are about one hour old (the sweep alone, and the   *)
(* sweep with polls, notifications and downloads), with notifications but  *)
(* no polls, and with fair polls but no notifications.                     *)
(*                                                                         *)
(* Every `await` of a handler is a suspension point: the part before it    *)
(* and the part after it are separate actions, and the suspended request   *)
(* sits in `inflight` between them.  Amounts are in thousandths of a       *)
(* currency unit, times in milliseconds.                                   *)
(***************************************************************************)
EXTENDS Integers, Sequences, FiniteSets, TLC

VARIABLES
    now,         \* Date.now(), milliseconds since the process started
    gw,          \* the gateway's payments: id -> [status, amount]
    pagamentos,  \* server.js:37, payment id -> record
    inflight,    \* suspended handlers and pending timers of server.js
    resp,        \* what the last step sent as HTTP response or wrote to the
                 \* console about the store (NoResp if neither)
    pedidos,     \* routes.ts: the rows of table `pedidos`
    pedido_itens \* routes.ts: the rows of table `pedido_itens`

vars == <<now, gw, pagamentos, inflight, resp, pedidos, pedido_itens>>
tables == <<pedidos, pedido_itens>>

----------------------------------------------------------------------------
(* Bounds *)

MaxPayments == 1   \* payments the gateway creates
MaxInFlight == 1   \* request handlers suspended at an await
MaxDeferred == 1   \* webhook reconciliations scheduled and not yet finished

----------------------------------------------------------------------------
(* Program constants *)

umaHora == 60 * 60 * 1000
tempoExpiracao == 24 * 60 * 60 * 1000

\* Instants at which the model observes the wall clock.
ClockPoints == {0, 1000, tempoExpiracao + 1000}

NoTime == -1   \* a timestamp field that is undefined

PaymentIds == 1 .. MaxPayments
AllIds == 1 .. (MaxPayments + 1)   \* the last one is never created

GatewayStatuses == {"pending", "in_process", "approved", "rejected", "cancelled"}
TerminalStatuses == {"approved", "rejected", "cancelled"}

\* status_detail as the gateway reports it for a status
StatusDetail(s) ==
    CASE s = "pending" -> "pending_waiting_transfer"
      [] s = "in_process" -> "pending_review_manual"
      [] s = "approved" -> "accredited"
      [] s = "rejected" -> "rejected_other_reason"
      [] OTHER -> "expired"

----------------------------------------------------------------------------
(* Strings and numbers of the request body *)

\* A JavaScript number: NaN, or a value in thousandths.
NaN == [nan |-> TRUE, v |-> 0]
Num(n) == [nan |-> FALSE, v |-> n]

Digits == {"0", "1", "2", "3", "4", "5", "6", "7", "8", "9"}
DigitVal(c) ==
    CASE c = "0" -> 0 [] c = "1" -> 1 [] c = "2" -> 2 [] c = "3" -> 3
      [] c = "4" -> 4 [] c = "5" -> 5 [] c = "6" -> 6 [] c = "7" -> 7
      [] c = "8" -> 8 [] OTHER -> 9

\* String.prototype.replace(pat, rep) with a string pattern: the first
\* occurrence only.
ReplaceFirst(s, pat, rep) ==
    LET hits == {i \in 1 .. (Len(s) - Len(pat) + 1) :
                    SubSeq(s, i, i + Len(pat) - 1) = pat}
    IN  IF hits = {} THEN s
        ELSE LET i == CHOOSE k \in hits : \A j \in hits : k <= j
             IN  SubSeq(s, 1, i - 1) \o rep \o SubSeq(s, i + Len(pat), Len(s))

\* String.prototype.replace(/c/g, ""): every occurrence.
RemoveAll(s, c) == SelectSeq(s, LAMBDA x : x # c)

\* The longest prefix of s made of digits.
RECURSIVE DigitPrefix(_)
DigitPrefix(s) ==
    IF s # <<>> /\ Head(s) \in Digits
    THEN <<Head(s)>> \o DigitPrefix(Tail(s))
    ELSE <<>>

RECURSIVE IntOf(_)
IntOf(ds) ==
    IF ds = <<>> THEN 0 ELSE IntOf(SubSeq(ds, 1, Len(ds) - 1)) * 10 + DigitVal(ds[Len(ds)])

\* The first three fraction digits, in thousandths.
FracOf(ds) ==
    LET d(i) == IF i <= Len(ds) THEN DigitVal(ds[i]) ELSE 0
    IN  d(1) * 100 + d(2) * 10 + d(3)

RECURSIVE SkipSpaces(_)
SkipSpaces(s) == IF s # <<>> /\ Head(s) = " " THEN SkipSpaces(Tail(s)) ELSE s

\* parseFloat: leading blanks, an optional sign, digits, an optional
\* fraction; whatever follows is ignored; NaN when there is no digit.
ParseFloat(s) ==
    LET t == SkipSpaces(s)
        neg == t # <<>> /\ Head(t) = "-"
        u == IF t # <<>> /\ Head(t) \in {"-", "+"} THEN Tail(t) ELSE t
        ip == DigitPrefix(u)
        r == SubSeq(u, Len(ip) + 1, Len(u))
        fp == IF r # <<>> /\ Head(r) = "." THEN DigitPrefix(Tail(r)) ELSE <<>>
        mag == IntOf(ip) * 1000 + FracOf(fp)
    IN  IF ip = <<>> /\ fp = <<>> THEN NaN
        ELSE Num(IF neg THEN 0 - mag ELSE mag)

\* The `total` of a request body: a number, a string, or absent.
TNum(n) == [type |-> "number", num |-> n, str |-> <<>>]
TStr(s) == [type |-> "string", num |-> 0, str |-> s]
TUndefined == [type |-> "undefined", num |-> 0, str |-> <<>>]

----------------------------------------------------------------------------
(* The catalog of server.js (Produtos.js) and the request bodies *)

\* Produtos.js:2-40: the first and the third of its six products, with the
\* ids and links shortened and the prices in thousandths; listarProdutos
\* returns the list.
produtos ==
    << [id |-> "p1", nome |-> "Curso Completo de React.js", preco |-> 100,
        linkDownload |-> "https://dl/p1"],
       [id |-> "p2", nome |-> "Template Premium Dashboard", preco |-> 89900,
        linkDownload |-> "https://dl/p2"] >>

listarProdutos == produtos

\* A cart item as the front ends send it: {product: {id, name}, quantity},
\* {id, name, quantity} or a bare string.  id "" is a missing id, name "" a
\* missing name, quantity 0 a missing (or zero) quantity.
ItemFlat(id, name, q) == [shape |-> "flat", id |-> id, name |-> name, quantity |-> q]
ItemProduct(id, name, q) == [shape |-> "product", id |-> id, name |-> name, quantity |-> q]
ItemString(id) == [shape |-> "string", id |-> id, name |-> "", quantity |-> 0]

Cart(items) == [isArray |-> TRUE, items |-> items]
CartNotAList == [isArray |-> FALSE, items |-> <<>>]

CartOne == Cart(<<ItemFlat("p1", "Book", 1)>>)
CartMixed == Cart(<<ItemProduct("p2", "E-book", 2), ItemString("zz")>>)
CartNoId == Cart(<<ItemFlat("", "Nameless", 1), ItemFlat("zz", "Ghost", 0)>>)

TotalLocalized == TStr(<<"R", "$", " ", "1", ".", "2", "3", "4", ",", "5", "6">>)
TotalComma == TStr(<<"4", "9", ",", "9", "0">>)

Body(c, n, e, t) == [carrinho |-> c, nomeCliente |-> n, email |-> e, total |-> t]

\* The request bodies POST /criar-pagamento is called with.
Bodies ==
    { Body(CartOne, "Ana", "a@b.com", TNum(49900)),
      Body(CartOne, "Ana", "a@b.com", TotalLocalized),
      Body(CartMixed, "Ana", "a@b.com", TNum(49900)),
      Body(CartNoId, "Ana", "a@b.com", TNum(49900)),
      Body(CartNotAList, "Ana", "a@b.com", TNum(49900)),
      Body(Cart(<<>>), "Ana", "a@b.com", TNum(49900)),
      Body(CartOne, "", "a@b.com", TNum(49900)),
      Body(CartOne, "Ana", "", TNum(49900)),
      Body(CartOne, "Ana", "a@b.com", TNum(0)),
      Body(CartOne, "Ana", "a@b.com", TUndefined),
      Body(CartOne, "Ana", "a@b.com", TStr(<<"a", "b", "c">>)) }

----------------------------------------------------------------------------
(* POST /criar-pagamento of server.js: the synchronous parts *)

\* server.js:67-70
valorTotal(total) ==
    IF total.type = "string"
    THEN ParseFloat(ReplaceFirst(RemoveAll(ReplaceFirst(total.str, <<"R", "$">>, <<>>),
                                           "."),
                                 <<",">>, <<".">>))
    ELSE IF total.type = "number" THEN Num(total.num) ELSE NaN

\* server.js:59-74: the error of the 400 response, or "ok".
Validar(body) ==
    IF ~body.carrinho.isArray \/ Len(body.carrinho.items) = 0
    THEN "Carrinho invalido ou vazio."
    ELSE IF body.nomeCliente = "" \/ body.email = ""
    THEN "Nome e email sao obrigatorios."
    ELSE IF valorTotal(body.total).nan \/ valorTotal(body.total).v <= 0
    THEN "Valor total invalido."
    ELSE "ok"

\* server.js:107-122: the id, name and quantity read from one cart item.
ItemId(item) == item.id
ItemQuantity(item) ==
    IF item.shape = "string" \/ item.quantity = 0 THEN 1 ELSE item.quantity

ProdutoIdLabel(id) ==
    CASE id = "p1" -> "Produto ID: p1"
      [] id = "p2" -> "Produto ID: p2"
      [] OTHER -> "Produto ID: zz"

Encontrados(id) == SelectSeq(listarProdutos, LAMBDA prod : prod.id = id)

\* server.js:129-154: the line item of one cart item that has an id.
LineItem(item) ==
    IF Encontrados(ItemId(item)) # <<>>
    THEN LET produto == Head(Encontrados(ItemId(item)))
         IN  [id |-> produto.id, name |-> produto.nome,
              downloadUrl |-> produto.linkDownload,
              quantity |-> ItemQuantity(item), price |-> produto.preco]
    ELSE [id |-> ItemId(item),
          name |-> IF item.name # "" THEN item.name ELSE ProdutoIdLabel(ItemId(item)),
          downloadUrl |-> "null",
          quantity |-> ItemQuantity(item), price |-> 0]

\* server.js:99-155: produtosEncontrados; an item without an id is skipped.
RECURSIVE produtosEncontrados(_)
produtosEncontrados(items) ==
    IF items = <<>> THEN <<>>
    ELSE IF ItemId(Head(items)) = "" THEN produtosEncontrados(Tail(items))
    ELSE <<LineItem(Head(items))>> \o produtosEncontrados(Tail(items))

\* server.js:98-133: links, the download reference of every product found.
RECURSIVE linksDe(_)
linksDe(items) ==
    IF items = <<>> THEN <<>>
    ELSE IF ItemId(Head(items)) # "" /\ Encontrados(ItemId(Head(items))) # <<>>
    THEN <<Head(Encontrados(ItemId(Head(items)))).linkDownload>> \o linksDe(Tail(items))
    ELSE linksDe(Tail(items))

\* Math.round(x * 100) of an amount in thousandths.
Centavos(v) == (v + 5) \div 10

\* The same, with the links left out until the payment is approved.
NovoRegistro_LinksOnApproval(body, pagamento, agora) ==
    [status |-> pagamento.status,
     statusDetail |-> pagamento.status_detail,
     links |-> IF pagamento.status = "approved" THEN linksDe(body.carrinho.items) ELSE <<>>,
     criadoEm |-> agora,
     paymentId |-> pagamento.id,
     customerEmail |-> body.email,
     customerName |-> body.nomeCliente,
     total |-> valorTotal(body.total).v,
     totalCentavos |-> Centavos(valorTotal(body.total).v),
     products |-> produtosEncontrados(body.carrinho.items),
     updatedAt |-> NoTime]

\* server.js:158-178: the record stored for a created payment.
NovoRegistro(body, pagamento, agora) ==
    [status |-> pagamento.status,
     statusDetail |-> pagamento.status_detail,
     links |-> linksDe(body.carrinho.items),
     criadoEm |-> agora,
     paymentId |-> pagamento.id,
     customerEmail |-> body.email,
     customerName |-> body.nomeCliente,
     total |-> valorTotal(body.total).v,
     totalCentavos |-> Centavos(valorTotal(body.total).v),
     products |-> produtosEncontrados(body.carrinho.items),
     updatedAt |-> NoTime]

\* The same, with the download reference of the first product of the catalog.
RegistroMinimo_WithLink(id, pagamento, agora) ==
    [status |-> pagamento.status,
     statusDetail |-> pagamento.status_detail,
     links |-> <<Head(listarProdutos).linkDownload>>,
     criadoEm |-> agora,
     paymentId |-> id,
     customerEmail |-> "N/A",
     customerName |-> "undefined",
     total |-> pagamento.transaction_amount,
     totalCentavos |-> Centavos(pagamento.transaction_amount),
     products |-> <<>>,
     updatedAt |-> agora]

\* server.js:276-288: the minimal record of a payment only the gateway knows.
RegistroMinimo(id, pagamento, agora) ==
    [status |-> pagamento.status,
     statusDetail |-> pagamento.status_detail,
     links |-> <<>>,
     criadoEm |-> agora,
     paymentId |-> id,
     customerEmail |-> "N/A",
     customerName |-> "undefined",
     total |-> pagamento.transaction_amount,
     totalCentavos |-> Centavos(pagamento.transaction_amount),
     products |-> <<>>,
     updatedAt |-> agora]

----------------------------------------------------------------------------
(* The payment gateway, as server.js uses it *)

GatewayMessage == "gateway_error"

\* What paymentClient.create answers for a body: the new payment, pending
\* until the payer transfers, or a failure.
GatewayCreated(id, amount) ==
    [ok |-> TRUE,
     pagamento |-> [id |-> id, status |-> "pending",
                    status_detail |-> StatusDetail("pending"),
                    transaction_amount |-> amount]]
GatewayFailed == [ok |-> FALSE, message |-> GatewayMessage]

\* What paymentClient.get({id}) can answer now: the payment as the gateway
\* has it, or a failure (always a failure for an id the gateway never made).
GatewayGet(id) ==
    IF id \in DOMAIN gw
    THEN { [ok |-> TRUE,
            pagamento |-> [id |-> id, status |-> gw[id].status,
                           status_detail |-> StatusDetail(gw[id].status),
                           transaction_amount |-> gw[id].amount]],
           GatewayFailed }
    ELSE { GatewayFailed }

\* The statuses a payment can move to at the gateway.
GatewayMoves(s) ==
    CASE s = "pending" -> {"in_process", "approved", "rejected", "cancelled"}
      [] s = "in_process" -> {"pending", "approved", "rejected", "cancelled"}
      [] OTHER -> {}

----------------------------------------------------------------------------
(* State *)

NoResp == [op |-> "none"]
NoRecord == [status |-> "none"]

\* `registro` of a suspended GET /status-pagamento/:id is a reference to the
\* object that was in `pagamentos` when the handler started.  When that key
\* is deleted or given another object, the handlers holding the old object
\* keep it: from then on they carry it themselves.
Detach(inf, ids) ==
    { IF e.kind = "status-known" /\ e.id \in ids /\ ~e.detached
      THEN [e EXCEPT !.detached = TRUE, !.obj = pagamentos[e.id]]
      ELSE e : e \in inf }

\* The suspended request handlers, and the deferred webhook work.
Suspended == {e \in inflight : e.kind \notin {"webhook-timer", "webhook-get"}}
Deferred == {e \in inflight : e.kind \in {"webhook-timer", "webhook-get"}}

Init ==
    /\ now = 0
    /\ gw = <<>>
    /\ pagamentos = <<>>
    /\ inflight = {}
    /\ resp = NoResp
    /\ pedidos = <<>>
    /\ pedido_itens = <<>>

Put(f, k, v) == [x \in DOMAIN f \cup {k} |-> IF x = k THEN v ELSE f[x]]
Drop(f, ks) == [x \in DOMAIN f \ ks |-> f[x]]

----------------------------------------------------------------------------
(* POST /criar-pagamento, server.js:53-203 *)

\* Up to the await of paymentClient.create (server.js:54-93).
CriarPagamento(body) ==
    IF Validar(body) # "ok"
    THEN /\ resp' = [op |-> "criar-pagamento", code |-> 400, req |-> body,
                     error |-> Validar(body)]
         /\ UNCHANGED <<now, gw, pagamentos, inflight, tables>>
    ELSE /\ Cardinality(Suspended) < MaxInFlight
         /\ Cardinality(DOMAIN gw) < MaxPayments
         /\ LET id == Cardinality(DOMAIN gw) + 1
                amount == valorTotal(body.total).v
            IN  \/ /\ gw' = Put(gw, id, [status |-> "pending", amount |-> amount])
                   /\ inflight' = inflight \cup
                        {[kind |-> "criar", body |-> body, res |-> GatewayCreated(id, amount)]}
                \/ /\ gw' = gw
                   /\ inflight' = inflight \cup
                        {[kind |-> "criar", body |-> body, res |-> GatewayFailed]}
         /\ resp' = NoResp
         /\ UNCHANGED <<now, pagamentos, tables>>

\* The same, keeping a record of the attempt when the gateway failed.
CriarPagamentoDone_StoresOnFailure(e) ==
    /\ e \in inflight /\ e.kind = "criar"
    /\ LET pagamento == IF e.res.ok THEN e.res.pagamento
                        ELSE GatewayCreated(Cardinality(DOMAIN gw) + 1,
                                            valorTotal(e.body.total).v).pagamento
           registro == NovoRegistro(e.body, pagamento, now)
       IN  /\ pagamentos' = Put(pagamentos, pagamento.id, registro)
           /\ inflight' = Detach(inflight \ {e}, {pagamento.id} \cap DOMAIN pagamentos)
           /\ resp' = IF e.res.ok
                      THEN [op |-> "criar-pagamento", code |-> 200, req |-> e.body,
                            id |-> pagamento.id, status |-> pagamento.status,
                            linksCount |-> Len(registro.links),
                            productsCount |-> Len(registro.products)]
                      ELSE [op |-> "criar-pagamento", code |-> 500, req |-> e.body,
                            error |-> "Erro ao criar pagamento",
                            detalhes |-> e.res.message]
    /\ UNCHANGED <<now, gw, tables>>

\* After the await (server.js:95-202).
CriarPagamentoDone(e) ==
    /\ e \in inflight /\ e.kind = "criar"
    /\ IF e.res.ok
       THEN LET pagamento == e.res.pagamento
                registro == NovoRegistro(e.body, pagamento, now)
            IN  /\ pagamentos' = Put(pagamentos, pagamento.id, registro)
                /\ inflight' = Detach(inflight \ {e}, {pagamento.id} \cap DOMAIN pagamentos)
                /\ resp' = [op |-> "criar-pagamento", code |-> 200, req |-> e.body,
                            id |-> pagamento.id, status |-> pagamento.status,
                            linksCount |-> Len(registro.links),
                            productsCount |-> Len(registro.products)]
       ELSE /\ pagamentos' = pagamentos
            /\ inflight' = inflight \ {e}
            /\ resp' = [op |-> "criar-pagamento", code |-> 500, req |-> e.body,
                        error |-> "Erro ao criar pagamento", detalhes |-> e.res.message]
    /\ UNCHANGED <<now, gw, tables>>

----------------------------------------------------------------------------
(* POST /webhook, server.js:206-256 *)

WebhookTypes == {"payment", "merchant_order"}

\* The same, querying the gateway before it answers.
Webhook_QueriesFirst(type, dataId) ==
    /\ IF type = "payment" /\ dataId # 0
       THEN /\ Cardinality(Deferred) < MaxDeferred
            /\ \E r \in GatewayGet(dataId) :
                  inflight' = inflight \cup
                      {[kind |-> "webhook-get", id |-> dataId, res |-> r]}
            /\ resp' = NoResp
       ELSE /\ inflight' = inflight
            /\ resp' = [op |-> "webhook", code |-> 200]
    /\ UNCHANGED <<now, gw, pagamentos, tables>>

\* The handler itself: the 200, and the timer when the notification names a
\* payment (server.js:210-219, 250).  dataId 0 is a body without data.id.
Webhook(type, dataId) ==
    /\ resp' = [op |-> "webhook", code |-> 200]
    /\ IF type = "payment" /\ dataId # 0
       THEN /\ Cardinality(Deferred) < MaxDeferred
            /\ inflight' = inflight \cup {[kind |-> "webhook-timer", id |-> dataId]}
       ELSE inflight' = inflight
    /\ UNCHANGED <<now, gw, pagamentos, tables>>

\* The timer fires: the callback runs up to its await (server.js:219-223).
WebhookTimer(e) ==
    /\ e \in inflight /\ e.kind = "webhook-timer"
    /\ \E r \in GatewayGet(e.id) :
          inflight' = (inflight \ {e}) \cup {[kind |-> "webhook-get", id |-> e.id, res |-> r]}
    /\ resp' = NoResp
    /\ UNCHANGED <<now, gw, pagamentos, tables>>

\* The same, without the status detail.
AtualizarStatus_StatusOnly(registro, pagamento, agora) ==
    [registro EXCEPT !.status = pagamento.status,
                     !.updatedAt = agora]

\* The same, restarting the age of the record.
AtualizarStatus_RefreshesCreated(registro, pagamento, agora) ==
    [registro EXCEPT !.status = pagamento.status,
                     !.statusDetail = pagamento.status_detail,
                     !.criadoEm = agora,
                     !.updatedAt = agora]

\* The same, keeping the previous status as the detail.
AtualizarStatus_KeepsPrevious(registro, pagamento, agora) ==
    [registro EXCEPT !.status = pagamento.status,
                     !.statusDetail = registro.status,
                     !.updatedAt = agora]

\* server.js:225-229: the three assignments of the reconciliation.
AtualizarStatus(registro, pagamento, agora) ==
    [registro EXCEPT !.status = pagamento.status,
                     !.statusDetail = pagamento.status_detail,
                     !.updatedAt = agora]

\* server.js:231-233, 242, 245-248: what the callback writes to the console.
WebhookLog(e) ==
    IF ~e.res.ok
    THEN [op |-> "log", de |-> "webhook", id |-> e.id,
          msg |-> "Erro ao processar webhook"]
    ELSE IF e.id \in DOMAIN pagamentos
    THEN [op |-> "log", de |-> "webhook", id |-> e.id, msg |-> "Status atualizado",
          anterior |-> pagamentos[e.id].status, status |-> e.res.pagamento.status]
    ELSE [op |-> "log", de |-> "webhook", id |-> e.id,
          msg |-> "Pagamento nao encontrado na memoria"]

\* The callback after its await (server.js:225-249).
WebhookReconcile(e) ==
    /\ e \in inflight /\ e.kind = "webhook-get"
    /\ IF e.res.ok /\ e.id \in DOMAIN pagamentos
       THEN pagamentos' = [pagamentos EXCEPT
                              ![e.id] = AtualizarStatus(@, e.res.pagamento, now)]
       ELSE pagamentos' = pagamentos
    /\ inflight' = inflight \ {e}
    /\ resp' = WebhookLog(e)
    /\ UNCHANGED <<now, gw, tables>>

----------------------------------------------------------------------------
(* GET /status-pagamento/:id, server.js:259-360 *)

\* server.js:329-341: the body of the 200.
ResponseData(registro, id) ==
    [op |-> "status-pagamento", code |-> 200, id |-> id,
     status |-> registro.status,
     statusDetail |-> registro.statusDetail,
     paymentId |-> registro.paymentId,
     products |-> registro.products,
     customerEmail |-> registro.customerEmail,
     total |-> IF registro.totalCentavos # 0 THEN registro.totalCentavos
               ELSE registro.total \div 10,
     updatedAt |-> registro.updatedAt,
     hasLinks |-> Len(registro.links) > 0,
     linksCount |-> Len(registro.links)]

\* The same, refreshing every record the store has.
StatusPagamento_AlwaysQueries(id) ==
    /\ Cardinality(Suspended) < MaxInFlight
    /\ \E r \in GatewayGet(id) :
          inflight' = inflight \cup
              {IF id \notin DOMAIN pagamentos
               THEN [kind |-> "status-unknown", id |-> id, res |-> r]
               ELSE [kind |-> "status-known", id |-> id, res |-> r,
                     detached |-> FALSE, obj |-> NoRecord]}
    /\ resp' = NoResp
    /\ UNCHANGED <<now, gw, pagamentos, tables>>

\* The same, answering from the store for every record it has.
StatusPagamento_CacheOnly(id) ==
    /\ IF id \notin DOMAIN pagamentos
       THEN /\ Cardinality(Suspended) < MaxInFlight
            /\ \E r \in GatewayGet(id) :
                  inflight' = inflight \cup
                      {[kind |-> "status-unknown", id |-> id, res |-> r]}
            /\ resp' = NoResp
       ELSE /\ inflight' = inflight
            /\ resp' = ResponseData(pagamentos[id], id) @@ [queried |-> FALSE]
    /\ UNCHANGED <<now, gw, pagamentos, tables>>

\* Up to the first await, or to the response when there is none
\* (server.js:260-273, 302-310, 329-351).  `queried` tells whether the handler
\* awaited paymentClient.get before it answered.
StatusPagamento(id) ==
    /\ IF id \notin DOMAIN pagamentos
       THEN /\ Cardinality(Suspended) < MaxInFlight
            /\ \E r \in GatewayGet(id) :
                  inflight' = inflight \cup
                      {[kind |-> "status-unknown", id |-> id, res |-> r]}
            /\ resp' = NoResp
       ELSE IF pagamentos[id].status \in {"pending", "in_process"}
       THEN /\ Cardinality(Suspended) < MaxInFlight
            /\ \E r \in GatewayGet(id) :
                  inflight' = inflight \cup
                      {[kind |-> "status-known", id |-> id, res |-> r,
                        detached |-> FALSE, obj |-> NoRecord]}
            /\ resp' = NoResp
       ELSE /\ inflight' = inflight
            /\ resp' = ResponseData(pagamentos[id], id) @@ [queried |-> FALSE]
    /\ UNCHANGED <<now, gw, pagamentos, tables>>

\* After the await (server.js:273-299 for an id the store did not have,
\* server.js:310-351 for a pending or in_process record).
StatusPagamentoDone(e) ==
    /\ e \in inflight /\ e.kind \in {"status-unknown", "status-known"}
    /\ IF e.kind = "status-unknown"
       THEN IF e.res.ok
            THEN LET registro == RegistroMinimo(e.id, e.res.pagamento, now)
                 IN  /\ pagamentos' = Put(pagamentos, e.id, registro)
                     /\ inflight' = Detach(inflight \ {e}, {e.id} \cap DOMAIN pagamentos)
                     /\ resp' = ResponseData(registro, e.id) @@ [queried |-> TRUE]
            ELSE /\ pagamentos' = pagamentos
                 /\ inflight' = inflight \ {e}
                 /\ resp' = [op |-> "status-pagamento", code |-> 404, id |-> e.id,
                             error |-> "Pagamento nao encontrado", status |-> "not_found"]
       ELSE LET antes == IF e.detached THEN e.obj ELSE pagamentos[e.id]
                registro == IF e.res.ok
                            THEN AtualizarStatus(antes, e.res.pagamento, now)
                            ELSE antes
            IN  /\ pagamentos' = IF e.detached THEN pagamentos
                                 ELSE [pagamentos EXCEPT ![e.id] = registro]
                /\ inflight' = inflight \ {e}
                /\ resp' = ResponseData(registro, e.id) @@ [queried |-> TRUE]
    /\ UNCHANGED <<now, gw, tables>>

----------------------------------------------------------------------------
(* GET /link-download/:id, server.js:363-435 *)

\* The same, with the expiry checked before the status.
LinkDownloadResponse_ExpiryFirst(registro, id, agora) ==
    IF agora - registro.criadoEm > tempoExpiracao
    THEN [op |-> "link-download", code |-> 410, id |-> id, local |-> TRUE,
          erro |-> "Links de download expiraram"]
    ELSE IF registro.status # "approved"
    THEN [op |-> "link-download", code |-> 403, id |-> id, local |-> TRUE,
          erro |-> "Pagamento ainda nao aprovado",
          status |-> registro.status, statusDetail |-> registro.statusDetail]
    ELSE IF Len(registro.links) = 0
    THEN [op |-> "link-download", code |-> 404, id |-> id, local |-> TRUE,
          erro |-> "Nenhum link de download disponivel"]
    ELSE [op |-> "link-download", code |-> 200, id |-> id, local |-> TRUE,
          links |-> registro.links,
          products |-> registro.products,
          customerName |-> registro.customerName,
          total |-> registro.total]

\* The same, expiring at the window instead of after it.
LinkDownloadResponse_Inclusive(registro, id, agora) ==
    IF registro.status # "approved"
    THEN [op |-> "link-download", code |-> 403, id |-> id, local |-> TRUE,
          erro |-> "Pagamento ainda nao aprovado",
          status |-> registro.status, statusDetail |-> registro.statusDetail]
    ELSE IF agora - registro.criadoEm >= tempoExpiracao
    THEN [op |-> "link-download", code |-> 410, id |-> id, local |-> TRUE,
          erro |-> "Links de download expiraram"]
    ELSE IF Len(registro.links) = 0
    THEN [op |-> "link-download", code |-> 404, id |-> id, local |-> TRUE,
          erro |-> "Nenhum link de download disponivel"]
    ELSE [op |-> "link-download", code |-> 200, id |-> id, local |-> TRUE,
          links |-> registro.links,
          products |-> registro.products,
          customerName |-> registro.customerName,
          total |-> registro.total]

\* The same, with the links checked before the expiry.
LinkDownloadResponse_LinksFirst(registro, id, agora) ==
    IF registro.status # "approved"
    THEN [op |-> "link-download", code |-> 403, id |-> id, local |-> TRUE,
          erro |-> "Pagamento ainda nao aprovado",
          status |-> registro.status, statusDetail |-> registro.statusDetail]
    ELSE IF Len(registro.links) = 0
    THEN [op |-> "link-download", code |-> 404, id |-> id, local |-> TRUE,
          erro |-> "Nenhum link de download disponivel"]
    ELSE IF agora - registro.criadoEm > tempoExpiracao
    THEN [op |-> "link-download", code |-> 410, id |-> id, local |-> TRUE,
          erro |-> "Links de download expiraram"]
    ELSE [op |-> "link-download", code |-> 200, id |-> id, local |-> TRUE,
          links |-> registro.links,
          products |-> registro.products,
          customerName |-> registro.customerName,
          total |-> registro.total]

\* server.js:397-428: the response for a record the store has.  `local`
\* tells which branch of server.js:370 answered: TRUE when `pagamentos` had
\* the record, FALSE when the gateway was asked instead.
LinkDownloadResponse(registro, id, agora) ==
    IF registro.status # "approved"
    THEN [op |-> "link-download", code |-> 403, id |-> id, local |-> TRUE,
          erro |-> "Pagamento ainda nao aprovado",
          status |-> registro.status, statusDetail |-> registro.statusDetail]
    ELSE IF agora - registro.criadoEm > tempoExpiracao
    THEN [op |-> "link-download", code |-> 410, id |-> id, local |-> TRUE,
          erro |-> "Links de download expiraram"]
    ELSE IF Len(registro.links) = 0
    THEN [op |-> "link-download", code |-> 404, id |-> id, local |-> TRUE,
          erro |-> "Nenhum link de download disponivel"]
    ELSE [op |-> "link-download", code |-> 200, id |-> id, local |-> TRUE,
          links |-> registro.links,
          products |-> registro.products,
          customerName |-> registro.customerName,
          total |-> registro.total]

\* Up to the await for an id the store does not have, else the whole handler.
LinkDownload(id) ==
    /\ IF id \notin DOMAIN pagamentos
       THEN /\ Cardinality(Suspended) < MaxInFlight
            /\ \E r \in GatewayGet(id) :
                  inflight' = inflight \cup
                      {[kind |-> "download-unknown", id |-> id, res |-> r]}
            /\ resp' = NoResp
       ELSE /\ inflight' = inflight
            /\ resp' = LinkDownloadResponse(pagamentos[id], id, now)
    /\ UNCHANGED <<now, gw, pagamentos, tables>>

\* The same, answering a failed lookup like a payment that is not approved.
LinkDownloadDone_NotApproved(e) ==
    /\ e \in inflight /\ e.kind = "download-unknown"
    /\ resp' = IF ~e.res.ok \/ e.res.pagamento.status # "approved"
               THEN [op |-> "link-download", code |-> 403, id |-> e.id, local |-> FALSE,
                     erro |-> "Pagamento nao aprovado para download",
                     status |-> IF e.res.ok THEN e.res.pagamento.status ELSE "not_found"]
               ELSE [op |-> "link-download", code |-> 404, id |-> e.id, local |-> FALSE,
                     erro |-> "Links nao disponiveis. Pagamento nao processado pelo sistema.",
                     status |-> e.res.pagamento.status]
    /\ inflight' = inflight \ {e}
    /\ UNCHANGED <<now, gw, pagamentos, tables>>

\* The same, storing a minimal record for a payment the gateway has.
LinkDownloadDone_StoresMinimal(e) ==
    /\ e \in inflight /\ e.kind = "download-unknown"
    /\ resp' = IF ~e.res.ok
               THEN [op |-> "link-download", code |-> 404, id |-> e.id, local |-> FALSE,
                     erro |-> "Pagamento nao encontrado"]
               ELSE IF e.res.pagamento.status # "approved"
               THEN [op |-> "link-download", code |-> 403, id |-> e.id, local |-> FALSE,
                     erro |-> "Pagamento nao aprovado para download",
                     status |-> e.res.pagamento.status]
               ELSE [op |-> "link-download", code |-> 404, id |-> e.id, local |-> FALSE,
                     erro |-> "Links nao disponiveis. Pagamento nao processado pelo sistema.",
                     status |-> e.res.pagamento.status]
    /\ pagamentos' = IF e.res.ok
                     THEN Put(pagamentos, e.id, RegistroMinimo(e.id, e.res.pagamento, now))
                     ELSE pagamentos
    /\ inflight' = Detach(inflight \ {e}, {e.id} \cap DOMAIN pagamentos)
    /\ UNCHANGED <<now, gw, tables>>

\* After the await (server.js:374-391).
LinkDownloadDone(e) ==
    /\ e \in inflight /\ e.kind = "download-unknown"
    /\ resp' = IF ~e.res.ok
               THEN [op |-> "link-download", code |-> 404, id |-> e.id, local |-> FALSE,
                     erro |-> "Pagamento nao encontrado"]
               ELSE IF e.res.pagamento.status # "approved"
               THEN [op |-> "link-download", code |-> 403, id |-> e.id, local |-> FALSE,
                     erro |-> "Pagamento nao aprovado para download",
                     status |-> e.res.pagamento.status]
               ELSE [op |-> "link-download", code |-> 404, id |-> e.id, local |-> FALSE,
                     erro |-> "Links nao disponiveis. Pagamento nao processado pelo sistema.",
                     status |-> e.res.pagamento.status]
    /\ inflight' = inflight \ {e}
    /\ UNCHANGED <<now, gw, pagamentos, tables>>

----------------------------------------------------------------------------
(* The sweep, the clock and the gateway *)

\* The same, removing a record from the age of one hour on.
Antigos_Inclusive(agora) ==
    {id \in DOMAIN pagamentos : agora - pagamentos[id].criadoEm >= umaHora}

\* server.js:40-50: one pass of the setInterval callback.
Antigos(agora) == {id \in DOMAIN pagamentos : agora - pagamentos[id].criadoEm > umaHora}

Sweep ==
    /\ pagamentos' = Drop(pagamentos, Antigos(now))
    /\ inflight' = Detach(inflight, Antigos(now))
    /\ resp' = IF Antigos(now) = {} THEN NoResp
               ELSE [op |-> "log", de |-> "sweep", removidos |-> Antigos(now)]
    /\ UNCHANGED <<now, gw, tables>>

\* Date.now() moves on to a later instant.
Tick ==
    /\ \E t \in ClockPoints : t > now /\ now' = t
    /\ resp' = NoResp
    /\ UNCHANGED <<gw, pagamentos, inflight, tables>>

\* The payer pays, or the gateway rejects or cancels the payment.
GatewayAdvance(id) ==
    /\ id \in DOMAIN gw
    /\ \E s \in GatewayMoves(gw[id].status) :
          gw' = [gw EXCEPT ![id].status = s]
    /\ resp' = NoResp
    /\ UNCHANGED <<now, pagamentos, inflight, tables>>

Next ==
    \/ \E body \in Bodies : CriarPagamento(body)
    \/ \E e \in inflight : CriarPagamentoDone(e)
    \/ \E type \in WebhookTypes, dataId \in {0} \cup AllIds : Webhook(type, dataId)
    \/ \E e \in inflight : WebhookTimer(e)
    \/ \E e \in inflight : WebhookReconcile(e)
    \/ \E id \in AllIds : StatusPagamento(id)
    \/ \E e \in inflight : StatusPagamentoDone(e)
    \/ \E id \in AllIds : LinkDownload(id)
    \/ \E e \in inflight : LinkDownloadDone(e)
    \/ Sweep
    \/ Tick
    \/ \E id \in PaymentIds : GatewayAdvance(id)

Spec == Init /\ [][Next]_vars

----------------------------------------------------------------------------
(* src/routes.ts: the catalog, the request bodies and the validation *)

\* Table `produtos` of the catalog.
produtosSupabase ==
    << [id |-> "p1", name |-> "Curso Completo de React.js", price |-> 49900,
        download_url |-> "https://dl/p1", is_active |-> TRUE],
       [id |-> "p2", name |-> "E-book: Design System Completo", price |-> 79900,
        download_url |-> "https://dl/p2", is_active |-> FALSE] >>

RBodies ==
    { Body(CartOne, "Ana", "a@b.com", TNum(49900)),
      Body(CartOne, "Ana", "a@b.com", TotalComma),
      Body(Cart(<<ItemFlat("p1", "Book", 1), ItemFlat("zz", "Ghost", 2)>>),
           "Ana", "a@b.com", TNum(49900)),
      Body(Cart(<<ItemFlat("zz", "Ghost", 1)>>), "Ana", "a@b.com", TNum(49900)),
      Body(Cart(<<>>), "Ana", "a@b.com", TNum(49900)),
      Body(CartNotAList, "Ana", "a@b.com", TNum(49900)),
      Body(CartNoId, "Ana", "a@b.com", TNum(49900)),
      Body(CartOne, "", "a@b.com", TNum(49900)),
      Body(CartOne, "Ana", "ana", TNum(49900)),
      Body(CartOne, "Ana", "a@b.com", TNum(0)),
      Body(CartOne, "Ana", "a@b.com", TotalLocalized) }

\* z.string().email() on the addresses the bodies use.
IsEmail(e) == e = "a@b.com"

\* routes.ts:68-74: the transform of `total`; it throws for NaN or <= 0.
TotalTransform(total) ==
    IF total.type = "string" THEN ParseFloat(total.str)
    ELSE IF total.type = "number" THEN Num(total.num) ELSE NaN

\* routes.ts:54-75, 404: createPaymentSchema.safeParse(req.body).  "invalid"
\* is success = false; "throw" is the Error a transform throws, which
\* safeParse does not catch.
SafeParse(body) ==
    IF /\ body.total.type # "undefined"
       /\ (TotalTransform(body.total).nan \/ TotalTransform(body.total).v <= 0)
    THEN "throw"
    ELSE IF \/ ~body.carrinho.isArray
            \/ \E i \in 1 .. Len(body.carrinho.items) :
                  LET item == body.carrinho.items[i]
                  IN  item.shape # "flat" \/ item.id = "" \/ item.quantity < 1
            \/ body.nomeCliente = ""
            \/ ~IsEmail(body.email)
            \/ body.total.type = "undefined"
    THEN "invalid"
    ELSE "ok"

\* routes.ts:131-145, 194: the active products among the ids of the cart.
ProdutosDoCarrinho(items) ==
    SelectSeq(produtosSupabase,
              LAMBDA p : p.is_active /\ \E i \in 1 .. Len(items) : items[i].id = p.id)

\* itemCarrinho?.quantity || 1 (routes.ts:255-259, 537-541)
Quantidade(items, produto) ==
    LET hits == SelectSeq(items, LAMBDA c : c.id = produto.id)
    IN  IF hits = <<>> \/ Head(hits).quantity = 0 THEN 1 ELSE Head(hits).quantity

RECURSIVE MapSeq(_, _)
MapSeq(f(_), sq) == IF sq = <<>> THEN <<>> ELSE <<f(Head(sq))>> \o MapSeq(f, Tail(sq))

\* routes.ts:254-262: the rows salvarPedido inserts into pedido_itens.
Itens(pedidoId, items, prods) ==
    MapSeq(LAMBDA produto : [pedido_id |-> pedidoId, produto_id |-> produto.id,
                             quantidade |-> Quantidade(items, produto),
                             preco_unitario |-> produto.price],
           prods)

\* routes.ts:237-244: the row salvarPedido inserts into pedidos.
NovoPedido(rowId, paymentId, body, total, agora) ==
    [id |-> rowId, payment_id |-> paymentId, email |-> body.email,
     nome_cliente |-> body.nomeCliente, valor_total |-> total,
     status |-> "pending", created_at |-> agora]

\* routes.ts:528-555: the body of the 200 of POST /api/payments/criar-pagamento.
PaymentInfo(body, total, pagamento, prods, pedidoId) ==
    [op |-> "api-criar-pagamento", code |-> 200, req |-> body,
     id |-> pagamento.id, status |-> pagamento.status,
     total |-> total, cliente |-> body.nomeCliente,
     produtos |-> MapSeq(LAMBDA produto :
                            [id |-> produto.id, nome |-> produto.name,
                             quantidade |-> Quantidade(body.carrinho.items, produto),
                             preco |-> produto.price,
                             download_url |-> produto.download_url],
                         prods),
     download_urls |-> MapSeq(LAMBDA q : [produto_id |-> q.id, produto_nome |-> q.name,
                                          download_url |-> q.download_url],
                              SelectSeq(prods, LAMBDA q : q.download_url # "")),
     pedido_id |-> pedidoId]

----------------------------------------------------------------------------
(* retryWithBackoff, routes.ts:37-51 *)

MaxRetries == 3
RetryDelays == {500, 1000}

\* What one invocation of fn settles with: the value it resolves with or
\* the error it rejects with.
FnOutcomes ==
    {[ok |-> TRUE, v |-> "r1"], [ok |-> TRUE, v |-> "r2"],
     [ok |-> FALSE, v |-> "e1"], [ok |-> FALSE, v |-> "e2"]}

MaxRetriesExceeded == "Max retries exceeded"

\* The head of the loop (routes.ts:42-43, 50): fn is invoked while
\* i < maxRetries, and past the loop the wrapper error is thrown.  `calls`
\* is what the invocations of fn settled with so far and `waits` the delays
\* of the timers set so far.
RetryLoop(i, maxRetries, delay, calls, waits) ==
    [at |-> IF i < maxRetries THEN "fn" ELSE "throw",
     result |-> IF i < maxRetries THEN "none" ELSE MaxRetriesExceeded,
     i |-> i, maxRetries |-> maxRetries, delay |-> delay,
     calls |-> calls, waits |-> waits]

\* The error of the first invocation thrown instead of the last one's.
RetrySettled_ThrowsFirst(r, out) ==
    LET calls == Append(r.calls, out)
    IN  IF out.ok
        THEN [r EXCEPT !.at = "return", !.result = out.v, !.calls = calls]
        ELSE IF r.i = r.maxRetries - 1
        THEN [r EXCEPT !.at = "throw", !.result = calls[1].v, !.calls = calls]
        ELSE [r EXCEPT !.at = "timer", !.calls = calls,
                       !.waits = Append(r.waits, r.delay * (r.i + 1))]

\* The same delay after every failed invocation.
RetrySettled_ConstantDelay(r, out) ==
    LET calls == Append(r.calls, out)
    IN  IF out.ok
        THEN [r EXCEPT !.at = "return", !.result = out.v, !.calls = calls]
        ELSE IF r.i = r.maxRetries - 1
        THEN [r EXCEPT !.at = "throw", !.result = out.v, !.calls = calls]
        ELSE [r EXCEPT !.at = "timer", !.calls = calls,
                       !.waits = Append(r.waits, r.delay)]

\* fn settled (routes.ts:43-47): its value is returned, or its error is
\* thrown when this was the last round, or the timer is set.
RetrySettled(r, out) ==
    LET calls == Append(r.calls, out)
    IN  IF out.ok
        THEN [r EXCEPT !.at = "return", !.result = out.v, !.calls = calls]
        ELSE IF r.i = r.maxRetries - 1
        THEN [r EXCEPT !.at = "throw", !.result = out.v, !.calls = calls]
        ELSE [r EXCEPT !.at = "timer", !.calls = calls,
                       !.waits = Append(r.waits, r.delay * (r.i + 1))]

\* The timer fired (routes.ts:47, 42): i++ and the head of the loop.
RetryTimerFired(r) == RetryLoop(r.i + 1, r.maxRetries, r.delay, r.calls, r.waits)

\* What a caller with no code of its own sees of a finished call.
RetryResult(r) ==
    [op |-> "retry", outcome |-> r.at, result |-> r.result,
     maxRetries |-> r.maxRetries, delay |-> r.delay,
     calls |-> r.calls, waits |-> r.waits]

\* retryWithBackoff(fn, maxRetries, delay) up to the first await.
RetryStart(maxRetries, delay) ==
    /\ Cardinality(Suspended) < MaxInFlight
    /\ LET r == RetryLoop(0, maxRetries, delay, <<>>, <<>>)
       IN  IF r.at = "fn"
           THEN /\ inflight' = inflight \cup {[kind |-> "retry", r |-> r]}
                /\ resp' = NoResp
           ELSE /\ inflight' = inflight
                /\ resp' = RetryResult(r)
    /\ UNCHANGED <<now, gw, pagamentos, tables>>

\* From the settling of fn to the return, the throw or the await of the
\* timer.
RetryFnSettled(e, out) ==
    /\ e \in inflight /\ e.kind = "retry" /\ e.r.at = "fn"
    /\ LET r == RetrySettled(e.r, out)
       IN  IF r.at = "timer"
           THEN /\ inflight' = (inflight \ {e}) \cup {[e EXCEPT !.r = r]}
                /\ resp' = NoResp
           ELSE /\ inflight' = inflight \ {e}
                /\ resp' = RetryResult(r)
    /\ UNCHANGED <<now, gw, pagamentos, tables>>

\* From the timer to the next await of fn.
RetryTimer(e) ==
    /\ e \in inflight /\ e.kind = "retry" /\ e.r.at = "timer"
    /\ inflight' = (inflight \ {e}) \cup {[e EXCEPT !.r = RetryTimerFired(e.r)]}
    /\ resp' = NoResp
    /\ UNCHANGED <<now, gw, pagamentos, tables>>

NextRetry ==
    \/ \E maxRetries \in 0..MaxRetries, delay \in RetryDelays : RetryStart(maxRetries, delay)
    \/ \E e \in inflight, out \in FnOutcomes : RetryFnSettled(e, out)
    \/ \E e \in inflight : RetryTimer(e)

SpecRetry == Init /\ [][NextRetry]_vars

----------------------------------------------------------------------------
(* POST /api/payments/criar-pagamento, routes.ts:399-596 *)

\* How buscarProdutosCarrinho ends (routes.ts:117-222): with the products,
\* or throwing because the connectivity test failed, the 10 s timeout won
\* the race, or the query returned an error.
CatalogOutcomes == {"ok", "conexao", "timeout", "erro"}

\* Up to the await of buscarProdutosCarrinho (routes.ts:400-428).
ApiCriarPagamento(body) ==
    /\ IF SafeParse(body) = "invalid"
       THEN /\ resp' = [op |-> "api-criar-pagamento", code |-> 400, req |-> body,
                        error |-> "Dados invalidos"]
            /\ inflight' = inflight
       ELSE IF SafeParse(body) = "throw"
       THEN /\ resp' = [op |-> "api-criar-pagamento", code |-> 500, req |-> body,
                        error |-> "Erro interno do servidor"]
            /\ inflight' = inflight
       ELSE /\ Cardinality(Suspended) < MaxInFlight
            /\ Cardinality(DOMAIN gw) < MaxPayments
            /\ \E c \in CatalogOutcomes :
                  inflight' = inflight \cup
                      {[kind |-> "api-catalog", body |-> body, catalog |-> c]}
            /\ resp' = NoResp
    /\ UNCHANGED <<now, gw, pagamentos, tables>>

\* The same, going on to payment.create when no product was found.
ApiCatalogDone_CreatesAnyway(e) ==
    /\ e \in inflight /\ e.kind = "api-catalog"
    /\ LET total == TotalTransform(e.body.total).v
           id == Cardinality(DOMAIN gw) + 1
       IN  IF e.catalog = "conexao"
           THEN /\ resp' = [op |-> "api-criar-pagamento", code |-> 503, req |-> e.body,
                            error |-> "Servico temporariamente indisponivel"]
                /\ inflight' = inflight \ {e}
                /\ gw' = gw
           ELSE IF e.catalog \in {"timeout", "erro"}
           THEN /\ resp' = [op |-> "api-criar-pagamento", code |-> 500, req |-> e.body,
                            error |-> "Erro ao acessar produtos"]
                /\ inflight' = inflight \ {e}
                /\ gw' = gw
           ELSE /\ Cardinality(DOMAIN gw) < MaxPayments
                /\ \/ /\ gw' = Put(gw, id, [status |-> "pending", amount |-> total])
                      /\ inflight' = (inflight \ {e}) \cup
                            {[kind |-> "api-create", body |-> e.body,
                              res |-> GatewayCreated(id, total)]}
                   \/ /\ gw' = gw
                      /\ inflight' = (inflight \ {e}) \cup
                            {[kind |-> "api-create", body |-> e.body, res |-> GatewayFailed]}
                /\ resp' = NoResp
    /\ UNCHANGED <<now, pagamentos, tables>>

\* From the catalog's answer to the await of payment.create
\* (routes.ts:428-509).
ApiCatalogDone(e) ==
    /\ e \in inflight /\ e.kind = "api-catalog"
    /\ LET prods == ProdutosDoCarrinho(e.body.carrinho.items)
           total == TotalTransform(e.body.total).v
           id == Cardinality(DOMAIN gw) + 1
       IN  IF e.catalog = "conexao"
           THEN /\ resp' = [op |-> "api-criar-pagamento", code |-> 503, req |-> e.body,
                            error |-> "Servico temporariamente indisponivel"]
                /\ inflight' = inflight \ {e}
                /\ gw' = gw
           ELSE IF e.catalog \in {"timeout", "erro"}
           THEN /\ resp' = [op |-> "api-criar-pagamento", code |-> 500, req |-> e.body,
                            error |-> "Erro ao acessar produtos"]
                /\ inflight' = inflight \ {e}
                /\ gw' = gw
           ELSE IF Len(prods) = 0
           THEN /\ resp' = [op |-> "api-criar-pagamento", code |-> 404, req |-> e.body,
                            error |-> "Produtos nao encontrados no banco de dados"]
                /\ inflight' = inflight \ {e}
                /\ gw' = gw
           ELSE /\ Cardinality(DOMAIN gw) < MaxPayments
                /\ \/ /\ gw' = Put(gw, id, [status |-> "pending", amount |-> total])
                      /\ inflight' = (inflight \ {e}) \cup
                            {[kind |-> "api-create", body |-> e.body,
                              res |-> GatewayCreated(id, total)]}
                   \/ /\ gw' = gw
                      /\ inflight' = (inflight \ {e}) \cup
                            {[kind |-> "api-create", body |-> e.body, res |-> GatewayFailed]}
                /\ resp' = NoResp
    /\ UNCHANGED <<now, pagamentos, tables>>

\* How an insert ends: done, refused with an error, or the call throws.
InsertOutcomes == {"ok", "error", "throw"}

\* The same, invoking payment.create once more when it failed.
ApiCreateDone_Retries(e) ==
    /\ e \in inflight /\ e.kind = "api-create"
    /\ IF ~e.res.ok
       THEN LET id == Cardinality(DOMAIN gw) + 1
                total == TotalTransform(e.body.total).v
            IN  /\ Cardinality(DOMAIN gw) < MaxPayments
                /\ gw' = Put(gw, id, [status |-> "pending", amount |-> total])
                /\ inflight' = (inflight \ {e}) \cup
                      {[e EXCEPT !.res = GatewayCreated(id, total)]}
                /\ resp' = NoResp
                /\ pedidos' = pedidos
       ELSE \E o \in InsertOutcomes :
               LET pedido == NovoPedido(Len(pedidos) + 1, e.res.pagamento.id, e.body,
                                        TotalTransform(e.body.total).v, now)
               IN  /\ pedidos' = IF o = "ok" THEN Append(pedidos, pedido) ELSE pedidos
                   /\ inflight' = (inflight \ {e}) \cup
                         {[kind |-> "api-pedido", body |-> e.body, res |-> e.res,
                           insert |-> o, pedido |-> pedido]}
                   /\ resp' = NoResp
                   /\ gw' = gw
    /\ UNCHANGED <<now, pagamentos, pedido_itens>>

\* From the gateway's answer to the await of the insert into pedidos
\* (routes.ts:509-525, 233-246).
ApiCreateDone(e) ==
    /\ e \in inflight /\ e.kind = "api-create"
    /\ IF ~e.res.ok
       THEN /\ resp' = [op |-> "api-criar-pagamento", code |-> 500, req |-> e.body,
                        error |-> "Erro interno do servidor", details |-> e.res.message]
            /\ inflight' = inflight \ {e}
            /\ pedidos' = pedidos
       ELSE \E o \in InsertOutcomes :
               LET pedido == NovoPedido(Len(pedidos) + 1, e.res.pagamento.id, e.body,
                                        TotalTransform(e.body.total).v, now)
               IN  /\ pedidos' = IF o = "ok" THEN Append(pedidos, pedido) ELSE pedidos
                   /\ inflight' = (inflight \ {e}) \cup
                         {[kind |-> "api-pedido", body |-> e.body, res |-> e.res,
                           insert |-> o, pedido |-> pedido]}
                   /\ resp' = NoResp
    /\ UNCHANGED <<now, gw, pagamentos, pedido_itens>>

\* From the answer of the first insert to the await of the second, or to the
\* response when salvarPedido gives up (routes.ts:248-266, 273-276, 528-564).
ApiPedidoDone(e) ==
    /\ e \in inflight /\ e.kind = "api-pedido"
    /\ LET prods == ProdutosDoCarrinho(e.body.carrinho.items)
           total == TotalTransform(e.body.total).v
       IN  IF e.insert # "ok"
           THEN /\ resp' = PaymentInfo(e.body, total, e.res.pagamento, prods, 0)
                /\ inflight' = inflight \ {e}
                /\ pedido_itens' = pedido_itens
           ELSE \E o \in InsertOutcomes :
                   /\ pedido_itens' =
                         IF o = "ok"
                         THEN pedido_itens \o Itens(e.pedido.id, e.body.carrinho.items, prods)
                         ELSE pedido_itens
                   /\ inflight' = (inflight \ {e}) \cup
                         {[kind |-> "api-itens", body |-> e.body, res |-> e.res,
                           insert |-> o, pedido |-> e.pedido]}
                   /\ resp' = NoResp
    /\ UNCHANGED <<now, gw, pagamentos, pedidos>>

\* After the second insert: the response (routes.ts:268-276, 528-564).
ApiItensDone(e) ==
    /\ e \in inflight /\ e.kind = "api-itens"
    /\ resp' = PaymentInfo(e.body, TotalTransform(e.body.total).v, e.res.pagamento,
                           ProdutosDoCarrinho(e.body.carrinho.items),
                           IF e.insert = "throw" THEN 0 ELSE e.pedido.id)
    /\ inflight' = inflight \ {e}
    /\ UNCHANGED <<now, gw, pagamentos, tables>>

----------------------------------------------------------------------------
(* GET /api/payments/status-pagamento/:paymentId, routes.ts:599-693 *)

\* routes.ts:615-638: the order of a payment with its items and their
\* products; .single() yields no order unless exactly one row matches.
PedidoDe(paymentId) ==
    LET rows == SelectSeq(pedidos, LAMBDA r : r.payment_id = paymentId)
    IN  IF Len(rows) # 1 THEN [found |-> FALSE]
        ELSE [found |-> TRUE, row |-> Head(rows),
              itens |-> SelectSeq(pedido_itens, LAMBDA i : i.pedido_id = Head(rows).id)]

ProdutoDe(produtoId) == Head(SelectSeq(produtosSupabase, LAMBDA p : p.id = produtoId))

\* routes.ts:649-683: the body of the 200.
StatusResponse(id, pagamento, pedido) ==
    [op |-> "api-status-pagamento", code |-> 200, id |-> id,
     payment |-> pagamento,
     pedido |-> IF pedido.found
                THEN [found |-> TRUE, id |-> pedido.row.id,
                      valor_total |-> pedido.row.valor_total,
                      status |-> pedido.row.status,
                      produtos |-> MapSeq(LAMBDA item :
                                     [id |-> item.produto_id,
                                      quantidade |-> item.quantidade,
                                      preco |-> item.preco_unitario,
                                      download_url |-> ProdutoDe(item.produto_id).download_url],
                                     pedido.itens)]
                ELSE [found |-> FALSE],
     downloads_disponiveis |->
        IF pagamento.status = "approved" /\ pedido.found
        THEN MapSeq(LAMBDA item : [produto_id |-> item.produto_id,
                                   download_url |-> ProdutoDe(item.produto_id).download_url],
                    SelectSeq(pedido.itens,
                              LAMBDA item : ProdutoDe(item.produto_id).download_url # ""))
        ELSE <<>>]

\* Up to the await of the gateway query (routes.ts:600-612).
ApiStatusPagamento(id) ==
    /\ Cardinality(Suspended) < MaxInFlight
    /\ \E r \in GatewayGet(id) :
          inflight' = inflight \cup {[kind |-> "api-status-get", id |-> id, res |-> r]}
    /\ resp' = NoResp
    /\ UNCHANGED <<now, gw, pagamentos, tables>>

\* From the gateway's answer to the await of the select (routes.ts:612-638,
\* 686-691).
ApiStatusGot(e) ==
    /\ e \in inflight /\ e.kind = "api-status-get"
    /\ IF ~e.res.ok
       THEN /\ resp' = [op |-> "api-status-pagamento", code |-> 500, id |-> e.id,
                        error |-> "Erro ao consultar status do pagamento",
                        details |-> e.res.message]
            /\ inflight' = inflight \ {e}
       ELSE /\ resp' = NoResp
            /\ inflight' = (inflight \ {e}) \cup
                  {[kind |-> "api-status-select", id |-> e.id, res |-> e.res,
                    pedido |-> PedidoDe(e.id)]}
    /\ UNCHANGED <<now, gw, pagamentos, tables>>

\* From the select's answer to the await of the update, or to the response
\* when there is nothing to update (routes.ts:641-685).
ApiStatusSelected(e) ==
    /\ e \in inflight /\ e.kind = "api-status-select"
    /\ IF e.res.pagamento.status = "approved" /\ e.pedido.found
          /\ e.pedido.row.status # "approved"
       THEN /\ pedidos' = [i \in DOMAIN pedidos |->
                              IF pedidos[i].payment_id = e.id
                              THEN [pedidos[i] EXCEPT !.status = "approved"]
                              ELSE pedidos[i]]
            /\ inflight' = (inflight \ {e}) \cup {[e EXCEPT !.kind = "api-status-update"]}
            /\ resp' = NoResp
       ELSE /\ pedidos' = pedidos
            /\ inflight' = inflight \ {e}
            /\ resp' = StatusResponse(e.id, e.res.pagamento, e.pedido)
    /\ UNCHANGED <<now, gw, pagamentos, pedido_itens>>

\* After the update: the response (routes.ts:649-685).
ApiStatusUpdated(e) ==
    /\ e \in inflight /\ e.kind = "api-status-update"
    /\ resp' = StatusResponse(e.id, e.res.pagamento, e.pedido)
    /\ inflight' = inflight \ {e}
    /\ UNCHANGED <<now, gw, pagamentos, tables>>

----------------------------------------------------------------------------
(* POST /criar-pagamento of routes.ts, routes.ts:770-921 *)

\* The request bodies: a product id and an address, one of them missing or
\* malformed in the last two.
LegacyBodies ==
    { [produtoId |-> TStr(<<"1">>), email |-> "a@b.com"],
      [produtoId |-> TNum(1), email |-> "a@b.com"],
      [produtoId |-> TUndefined, email |-> "a@b.com"],
      [produtoId |-> TStr(<<"1">>), email |-> "ana"] }

\* routes.ts:78-81, 773: productSchema.safeParse(req.body).success
LegacyValid(body) ==
    /\ body.produtoId.type \in {"string", "number"}
    /\ IsEmail(body.email)

\* email.split('@')[0] on the addresses the bodies use (routes.ts:860)
LocalPart(email) == IF email = "a@b.com" THEN "a" ELSE email

\* What the catalog read settles with (routes.ts:799-804): it resolves with
\* an active row of the table or with an error and no row, or it rejects
\* because the request did not get through.  `data` is the id of the row.
LegacyReads ==
    {[ok |-> TRUE, v |-> [data |-> p.id, error |-> "none"]] :
        p \in {produtosSupabase[i] : i \in {j \in DOMAIN produtosSupabase :
                                              produtosSupabase[j].is_active}}}
    \cup {[ok |-> TRUE, v |-> [data |-> "null", error |-> "no rows"]],
          [ok |-> FALSE, v |-> [data |-> "null", error |-> "fetch failed"]]}

\* routes.ts:867-880: the body of the 200.
LegacyPaymentInfo(body, pagamento, produto, pedidoId) ==
    [op |-> "legacy-criar-pagamento", code |-> 200, req |-> body,
     id |-> pagamento.id, status |-> pagamento.status,
     produto |-> [id |-> produto.id, nome |-> produto.name, preco |-> produto.price,
                  download_url |-> produto.download_url],
     pedido_id |-> pedidoId]

\* The body salvarPedido is called with (routes.ts:857-864).
LegacyPedidoBody(body) == [email |-> body.email, nomeCliente |-> LocalPart(body.email)]

\* Up to the first await of the catalog read inside retryWithBackoff
\* (routes.ts:771-805, 42-44).
LegacyCriarPagamento(body) ==
    /\ IF ~LegacyValid(body)
       THEN /\ resp' = [op |-> "legacy-criar-pagamento", code |-> 400, req |-> body,
                        error |-> "Dados invalidos"]
            /\ inflight' = inflight
       ELSE /\ Cardinality(Suspended) < MaxInFlight
            /\ inflight' = inflight \cup
                  {[kind |-> "legacy-catalog", body |-> body,
                    r |-> RetryLoop(0, 2, 500, <<>>, <<>>)]}
            /\ resp' = NoResp
    /\ UNCHANGED <<now, gw, pagamentos, tables>>

\* From the settling of the catalog read to the timer of retryWithBackoff,
\* to a response, or to the await of payment.create (routes.ts:43-48,
\* 807-848, 889-920).
LegacyCatalogSettled(e, out) ==
    /\ e \in inflight /\ e.kind = "legacy-catalog" /\ e.r.at = "fn"
    /\ LET r == RetrySettled(e.r, out)
           id == Cardinality(DOMAIN gw) + 1
       IN  IF r.at = "timer"
           THEN /\ inflight' = (inflight \ {e}) \cup {[e EXCEPT !.r = r]}
                /\ resp' = NoResp
                /\ gw' = gw
           ELSE IF r.at = "throw"
           THEN /\ inflight' = inflight \ {e}
                /\ resp' = [op |-> "legacy-criar-pagamento", code |-> 500, req |-> e.body,
                            error |-> "Erro interno do servidor"]
                /\ gw' = gw
           ELSE IF r.result.error # "none" \/ r.result.data = "null"
           THEN /\ inflight' = inflight \ {e}
                /\ resp' = [op |-> "legacy-criar-pagamento", code |-> 404, req |-> e.body,
                            error |-> "Produto nao encontrado"]
                /\ gw' = gw
           ELSE IF ProdutoDe(r.result.data).price <= 0
           THEN /\ inflight' = inflight \ {e}
                /\ resp' = [op |-> "legacy-criar-pagamento", code |-> 400, req |-> e.body,
                            error |-> "Preco do produto invalido"]
                /\ gw' = gw
           ELSE LET produto == ProdutoDe(r.result.data)
                IN  /\ Cardinality(DOMAIN gw) < MaxPayments
                    /\ \/ /\ gw' = Put(gw, id, [status |-> "pending", amount |-> produto.price])
                          /\ inflight' = (inflight \ {e}) \cup
                                {[kind |-> "legacy-create", body |-> e.body,
                                  produto |-> produto,
                                  res |-> GatewayCreated(id, produto.price)]}
                       \/ /\ gw' = gw
                          /\ inflight' = (inflight \ {e}) \cup
                                {[kind |-> "legacy-create", body |-> e.body,
                                  produto |-> produto, res |-> GatewayFailed]}
                    /\ resp' = NoResp
    /\ UNCHANGED <<now, pagamentos, tables>>

\* From the timer of retryWithBackoff to the next await of the catalog read
\* (routes.ts:47, 42-44).
LegacyCatalogTimer(e) ==
    /\ e \in inflight /\ e.kind = "legacy-catalog" /\ e.r.at = "timer"
    /\ inflight' = (inflight \ {e}) \cup {[e EXCEPT !.r = RetryTimerFired(e.r)]}
    /\ resp' = NoResp
    /\ UNCHANGED <<now, gw, pagamentos, tables>>

\* From the gateway's answer to the await of the insert into pedidos
\* (routes.ts:848-864, 233-246, 889-920).
LegacyCreateDone(e) ==
    /\ e \in inflight /\ e.kind = "legacy-create"
    /\ IF ~e.res.ok
       THEN /\ resp' = [op |-> "legacy-criar-pagamento", code |-> 500, req |-> e.body,
                        error |-> "Erro interno do servidor", details |-> e.res.message]
            /\ inflight' = inflight \ {e}
            /\ pedidos' = pedidos
       ELSE \E o \in InsertOutcomes :
               LET pedido == NovoPedido(Len(pedidos) + 1, e.res.pagamento.id,
                                        LegacyPedidoBody(e.body), e.produto.price, now)
               IN  /\ pedidos' = IF o = "ok" THEN Append(pedidos, pedido) ELSE pedidos
                   /\ inflight' = (inflight \ {e}) \cup
                         {[kind |-> "legacy-pedido", body |-> e.body, produto |-> e.produto,
                           res |-> e.res, insert |-> o, pedido |-> pedido]}
                   /\ resp' = NoResp
    /\ UNCHANGED <<now, gw, pagamentos, pedido_itens>>

\* From the answer of the first insert to the await of the second, or to the
\* response when salvarPedido gives up (routes.ts:248-266, 273-276, 867-887).
LegacyPedidoDone(e) ==
    /\ e \in inflight /\ e.kind = "legacy-pedido"
    /\ IF e.insert # "ok"
       THEN /\ resp' = LegacyPaymentInfo(e.body, e.res.pagamento, e.produto, 0)
            /\ inflight' = inflight \ {e}
            /\ pedido_itens' = pedido_itens
       ELSE \E o \in InsertOutcomes :
               /\ pedido_itens' =
                     IF o = "ok"
                     THEN pedido_itens \o
                          Itens(e.pedido.id,
                                <<ItemFlat(e.produto.id, e.produto.name, 1)>>, <<e.produto>>)
                     ELSE pedido_itens
               /\ inflight' = (inflight \ {e}) \cup
                     {[kind |-> "legacy-itens", body |-> e.body, produto |-> e.produto,
                       res |-> e.res, insert |-> o, pedido |-> e.pedido]}
               /\ resp' = NoResp
    /\ UNCHANGED <<now, gw, pagamentos, pedidos>>

\* After the second insert: the response (routes.ts:268-276, 867-887).
LegacyItensDone(e) ==
    /\ e \in inflight /\ e.kind = "legacy-itens"
    /\ resp' = LegacyPaymentInfo(e.body, e.res.pagamento, e.produto,
                                 IF e.insert = "throw" THEN 0 ELSE e.pedido.id)
    /\ inflight' = inflight \ {e}
    /\ UNCHANGED <<now, gw, pagamentos, tables>>

----------------------------------------------------------------------------
(* routes.ts as a whole *)

NextRoutes ==
    \/ \E body \in LegacyBodies : LegacyCriarPagamento(body)
    \/ \E e \in inflight, out \in LegacyReads : LegacyCatalogSettled(e, out)
    \/ \E e \in inflight : LegacyCatalogTimer(e)
    \/ \E e \in inflight : LegacyCreateDone(e)
    \/ \E e \in inflight : LegacyPedidoDone(e)
    \/ \E e \in inflight : LegacyItensDone(e)
    \/ \E body \in RBodies : ApiCriarPagamento(body)
    \/ \E e \in inflight : ApiCatalogDone(e)
    \/ \E e \in inflight : ApiCreateDone(e)
    \/ \E e \in inflight : ApiPedidoDone(e)
    \/ \E e \in inflight : ApiItensDone(e)
    \/ \E id \in AllIds : ApiStatusPagamento(id)
    \/ \E e \in inflight : ApiStatusGot(e)
    \/ \E e \in inflight : ApiStatusSelected(e)
    \/ \E e \in inflight : ApiStatusUpdated(e)
    \/ Tick
    \/ \E id \in PaymentIds : GatewayAdvance(id)

SpecRoutes == Init /\ [][NextRoutes]_vars

----------------------------------------------------------------------------
(* The sweep on stores whose records are about one hour old *)

\* The ages a record has when a pass of the sweep runs.
SweepAges == {umaHora - 1000, umaHora, umaHora + 1000}
SweepStatuses == {"pending", "approved", "rejected"}

\* A record POST /criar-pagamento stored `age` ago, with the status the
\* reconciliation gave it since (server.js:158-178, 225-229).
SweepRecord(id, age, status) ==
    LET novo == NovoRegistro(Body(CartOne, "Ana", "a@b.com", TNum(49900)),
                             GatewayCreated(id, 49900).pagamento, 2 * umaHora - age)
    IN  IF status = "pending" THEN novo
        ELSE AtualizarStatus(novo, [status |-> status, status_detail |-> StatusDetail(status)],
                             2 * umaHora - age)

\* The stores: any of the ids, each with a record of any of the ages and
\* statuses.
SweepStores ==
    UNION { [ids -> {SweepRecord(id, age, status) :
                        id \in ids, age \in SweepAges, status \in SweepStatuses}] :
            ids \in SUBSET AllIds }

\* The process has run for two hours, the store holds records of payments
\* the gateway has, no handler is suspended and the last thing sent was the
\* 200 of a notification that set no timer.
InitSweep ==
    /\ now = 2 * umaHora
    /\ pagamentos \in {st \in SweepStores : \A id \in DOMAIN st : st[id].paymentId = id}
    /\ gw = [id \in DOMAIN pagamentos |->
                [status |-> pagamentos[id].status, amount |-> pagamentos[id].total]]
    /\ inflight = {}
    /\ resp = [op |-> "webhook", code |-> 200]
    /\ pedidos = <<>>
    /\ pedido_itens = <<>>

NextSweep == Sweep

SpecSweep == InitSweep /\ [][NextSweep]_vars

----------------------------------------------------------------------------
(* server.js around the sweep, with no new orders *)

\* From a store whose records are about one hour old: the sweep, and the
\* status polls, notifications and download requests for the payments.
NextRetention ==
    \/ Sweep
    \/ \E id \in AllIds : StatusPagamento(id)
    \/ \E e \in inflight : StatusPagamentoDone(e)
    \/ \E type \in WebhookTypes, dataId \in {0} \cup AllIds : Webhook(type, dataId)
    \/ \E e \in inflight : WebhookTimer(e)
    \/ \E e \in inflight : WebhookReconcile(e)
    \/ \E id \in AllIds : LinkDownload(id)
    \/ \E e \in inflight : LinkDownloadDone(e)
    \/ Tick
    \/ \E id \in AllIds : GatewayAdvance(id)

\* The stores of InitSweep with records of the payments of PaymentIds only.
InitRetention == InitSweep /\ DOMAIN pagamentos \subseteq PaymentIds

SpecRetention == InitRetention /\ [][NextRetention]_vars

----------------------------------------------------------------------------
(* server.js with a client that keeps polling and no notifications *)

\* The order of one product of the catalog.
OneProductBody == Body(CartOne, "Ana", "a@b.com", TNum(49900))

NextPolling ==
    \/ CriarPagamento(OneProductBody)
    \/ \E e \in inflight : CriarPagamentoDone(e)
    \/ \E id \in AllIds : StatusPagamento(id)
    \/ \E e \in inflight : StatusPagamentoDone(e)
    \/ \E id \in AllIds : LinkDownload(id)
    \/ \E e \in inflight : LinkDownloadDone(e)
    \/ Sweep
    \/ Tick
    \/ \E id \in PaymentIds : GatewayAdvance(id)

\* A poll of payment id that awaits paymentClient.get and is answered by the
\* gateway.
PollSucceeds(id) ==
    /\ StatusPagamento(id)
    /\ \E f \in inflight' \ inflight : f.id = id /\ f.res.ok

\* The poll of payment id that the gateway answered with status s resumes.
PollResumes(id, s) ==
    \E e \in inflight :
        /\ e.kind \in {"status-unknown", "status-known"}
        /\ e.id = id /\ e.res.ok /\ e.res.pagamento.status = s
        /\ StatusPagamentoDone(e)

\* A handler whose awaited call has settled resumes (the event loop runs
\* the continuation of every settled promise), and the client polls every
\* payment again and again with the gateway answering.
FairPolling ==
    /\ WF_vars(\E e \in inflight : CriarPagamentoDone(e))
    /\ WF_vars(\E e \in inflight : StatusPagamentoDone(e))
    /\ WF_vars(\E e \in inflight : LinkDownloadDone(e))
    /\ \A id \in PaymentIds, s \in GatewayStatuses : WF_vars(PollResumes(id, s))
    /\ \A id \in PaymentIds : SF_vars(PollSucceeds(id))

SpecPolling == Init /\ [][NextPolling]_vars /\ FairPolling

----------------------------------------------------------------------------
(* server.js from the order to the download, with notifications only *)

\* The client orders and asks for the links, the gateway notifies, the
\* sweep runs, and nobody polls: a stored status changes through
\* POST /webhook alone.
NextEndToEnd ==
    \/ CriarPagamento(OneProductBody)
    \/ \E e \in inflight : CriarPagamentoDone(e)
    \/ \E type \in WebhookTypes, dataId \in {0} \cup AllIds : Webhook(type, dataId)
    \/ \E e \in inflight : WebhookTimer(e)
    \/ \E e \in inflight : WebhookReconcile(e)
    \/ \E id \in AllIds : LinkDownload(id)
    \/ \E e \in inflight : LinkDownloadDone(e)
    \/ Sweep
    \/ Tick
    \/ \E id \in PaymentIds : GatewayAdvance(id)

SpecEndToEnd == Init /\ [][NextEndToEnd]_vars

----------------------------------------------------------------------------
(* Properties *)

\* The download references a response carries.
RECURSIVE UrlsOf(_, _)
UrlsOf(sq, none) ==
    IF sq = <<>> THEN {}
    ELSE (IF Head(sq) = none THEN {} ELSE {Head(sq)}) \cup UrlsOf(Tail(sq), none)

DisclosedRefs ==
    IF resp.op = "api-criar-pagamento" /\ resp.code = 200
    THEN UrlsOf(MapSeq(LAMBDA x : x.download_url, resp.produtos), "")
         \cup UrlsOf(MapSeq(LAMBDA x : x.download_url, resp.download_urls), "")
    ELSE IF resp.op = "api-status-pagamento" /\ resp.code = 200
    THEN UrlsOf(MapSeq(LAMBDA x : x.download_url, resp.downloads_disponiveis), "")
         \cup (IF resp.pedido.found
               THEN UrlsOf(MapSeq(LAMBDA x : x.download_url, resp.pedido.produtos), "")
               ELSE {})
    ELSE IF resp.op = "status-pagamento" /\ resp.code = 200
    THEN UrlsOf(MapSeq(LAMBDA x : x.downloadUrl, resp.products), "null")
    ELSE IF resp.op = "link-download" /\ resp.code = 200
    THEN UrlsOf(resp.links, "null")
         \cup UrlsOf(MapSeq(LAMBDA x : x.downloadUrl, resp.products), "null")
    ELSE {}

\* The order of the response's payment is stored as approved and is inside
\* the download window.
Entitled ==
    IF resp.op \in {"api-criar-pagamento", "api-status-pagamento"}
    THEN /\ PedidoDe(resp.id).found
         /\ PedidoDe(resp.id).row.status = "approved"
         /\ now - PedidoDe(resp.id).row.created_at <= tempoExpiracao
    ELSE /\ resp.id \in DOMAIN pagamentos
         /\ pagamentos[resp.id].status = "approved"
         /\ now - pagamentos[resp.id].criadoEm <= tempoExpiracao

\* C1: a response of the create, status or download operation carries a
\* download reference only if the order's stored status is approved and the
\* order is no older than the download window; a pending order gets none.
C1_DisclosureOnlyWhenEntitled == DisclosedRefs # {} => Entitled

\* The response of GET /link-download/:id for a record the store had.
LocalDownload ==
    resp.op = "link-download" /\ resp.local /\ resp.id \in DOMAIN pagamentos

\* C2: GET /link-download/:id on a stored record whose status is not
\* approved answers 403 with the record's status and no download reference,
\* whatever the record's age and links.
C2_NotApprovedIs403 ==
    (LocalDownload /\ pagamentos[resp.id].status # "approved")
        => /\ resp.code = 403
           /\ resp.status = pagamentos[resp.id].status
           /\ DisclosedRefs = {}

\* A 403 for a stored record that has links and is older than the window.
C2_Witness ==
    /\ LocalDownload
    /\ resp.code = 403
    /\ pagamentos[resp.id].status # "approved"
    /\ Len(pagamentos[resp.id].links) > 0
    /\ now - pagamentos[resp.id].criadoEm > tempoExpiracao

\* C3: for a stored approved record with at least one link,
\* GET /link-download/:id answers 410 exactly when the record is older than
\* 24 hours, and 200 with the links up to and including 24 hours.
C3_ExpiredExactlyAfterWindow ==
    (/\ LocalDownload
     /\ pagamentos[resp.id].status = "approved"
     /\ Len(pagamentos[resp.id].links) > 0)
        => IF now - pagamentos[resp.id].criadoEm > 24 * 60 * 60 * 1000
           THEN resp.code = 410 /\ DisclosedRefs = {}
           ELSE resp.code = 200 /\ resp.links = pagamentos[resp.id].links

\* A 410 for a stored approved record with a link.
C3_Witness ==
    /\ LocalDownload
    /\ resp.code = 410
    /\ pagamentos[resp.id].status = "approved"
    /\ Len(pagamentos[resp.id].links) > 0
    /\ now - pagamentos[resp.id].criadoEm > 24 * 60 * 60 * 1000

\* C4: for a stored approved record inside the window,
\* GET /link-download/:id answers 404 when the record has no links and
\* otherwise 200 with exactly the stored links, the customer name, the total
\* and the line items; the status is checked before the expiry and the
\* expiry before the links.
C4_LinksOfApprovedRecord ==
    LocalDownload =>
        LET registro == pagamentos[resp.id]
            expirado == now - registro.criadoEm > tempoExpiracao
        IN  /\ registro.status # "approved" => resp.code = 403
            /\ (registro.status = "approved" /\ expirado) => resp.code = 410
            /\ (registro.status = "approved" /\ ~expirado /\ Len(registro.links) = 0)
                  => resp.code = 404
            /\ (registro.status = "approved" /\ ~expirado /\ Len(registro.links) > 0)
                  => /\ resp.code = 200
                     /\ resp.links = registro.links
                     /\ resp.customerName = registro.customerName
                     /\ resp.total = registro.total
                     /\ resp.products = registro.products

\* A 410 for a stored approved record that has no links: the expiry check
\* came before the links check.
C4_Witness ==
    /\ LocalDownload
    /\ resp.code = 410
    /\ pagamentos[resp.id].status = "approved"
    /\ Len(pagamentos[resp.id].links) = 0

\* The amount a submitted total denotes, in thousandths.
Denoted(total) ==
    IF total.type = "number" THEN total.num
    ELSE IF total = TotalLocalized THEN 1234 * 1000 + 560
    ELSE IF total = TotalComma THEN 49 * 1000 + 900
    ELSE 0

\* The record POST /criar-pagamento stored when it answers 200.
ServerStoresSubmittedTotal ==
    (resp.op = "criar-pagamento" /\ resp.code = 200)
        => /\ resp.id \in DOMAIN pagamentos
           /\ pagamentos[resp.id].status = "pending"
           /\ pagamentos[resp.id].total = Denoted(resp.req.total)

\* The order POST /api/payments/criar-pagamento stored when it answers 200.
RoutesStoresSubmittedTotal ==
    (resp.op = "api-criar-pagamento" /\ resp.code = 200 /\ PedidoDe(resp.id).found)
        => /\ PedidoDe(resp.id).row.status = "pending"
           /\ PedidoDe(resp.id).row.valor_total = Denoted(resp.req.total)

\* C5: when a payment is created for a valid submission with a positive
\* total, the record stored for it has status pending and a total equal to
\* the submitted total.
C5_StoredPendingWithSubmittedTotal ==
    ServerStoresSubmittedTotal /\ RoutesStoresSubmittedTotal

\* C6: when the gateway refuses to create the payment, POST /criar-pagamento
\* answers 500 with the gateway's message and the store is left as it was.
C6_GatewayFailureLeavesStore ==
    [][(resp'.op = "criar-pagamento" /\ resp'.code = 500)
          => /\ pagamentos' = pagamentos
             /\ gw' = gw
             /\ resp'.detalhes = GatewayMessage]_vars

\* A 500 carrying the gateway's message.
C6_Witness ==
    /\ resp.op = "criar-pagamento" /\ resp.code = 500
    /\ resp.detalhes = GatewayMessage
    /\ DOMAIN pagamentos = {}

\* What the contract of POST /criar-pagamento calls an invalid request.
InvalidRequest(body) ==
    \/ ~body.carrinho.isArray
    \/ Len(body.carrinho.items) = 0
    \/ \E i \in 1 .. Len(body.carrinho.items) :
          LET item == body.carrinho.items[i]
          IN  item.shape # "string" /\ (ItemId(item) = "" \/ item.quantity < 1)
    \/ body.nomeCliente = ""
    \/ body.email = ""
    \/ body.total.type = "undefined"
    \/ valorTotal(body.total).nan
    \/ valorTotal(body.total).v <= 0

\* C7: POST /criar-pagamento answers 400, without calling the gateway or
\* changing the store, when the cart is empty or not a list, an item lacks
\* an id or has a quantity below 1, the name or email is empty, or the total
\* is not a positive number.
C7_InvalidRequestIs400 ==
    (resp.op = "criar-pagamento" /\ InvalidRequest(resp.req)) => resp.code = 400

\* What the schema of POST /api/payments/criar-pagamento rejects, and the
\* empty cart.
FailsValidation(body) ==
    SafeParse(body) = "invalid" \/ Len(body.carrinho.items) = 0

\* C8: POST /api/payments/criar-pagamento answers 400 for every request that
\* fails validation, the empty cart included.
C8_ValidationFailureIs400 ==
    (resp.op = "api-criar-pagamento" /\ FailsValidation(resp.req)) => resp.code = 400

\* The items of a cart the catalog has no active product for.
Unresolved(items) ==
    {i \in 1 .. Len(items) :
        \A k \in 1 .. Len(produtosSupabase) :
            produtosSupabase[k].id # items[i].id \/ ~produtosSupabase[k].is_active}

\* C9: when a payment is created for a cart with a resolvable and an
\* unresolvable item, the stored order has one line item per cart item, the
\* unresolvable one with price 0 and no download reference.
C9_PlaceholderLineItems ==
    (/\ resp.op = "api-criar-pagamento" /\ resp.code = 200
     /\ PedidoDe(resp.id).found
     /\ PedidoDe(resp.id).itens # <<>>)
        => LET items == resp.req.carrinho.items
               itens == PedidoDe(resp.id).itens
           IN  /\ Len(itens) = Len(items)
               /\ \A i \in Unresolved(items) :
                     \E k \in 1 .. Len(itens) :
                        itens[k].produto_id = items[i].id /\ itens[k].preco_unitario = 0

\* C10: the stored status of a payment never goes from approved, rejected
\* or cancelled back to pending, whatever requests, notifications, polls and
\* sweeps happen.
C10_TerminalNeverBackToPending ==
    [][\A id \in DOMAIN pagamentos \cap DOMAIN pagamentos' :
          pagamentos[id].status \in TerminalStatuses
              => pagamentos'[id].status # "pending"]_vars

\* Two entries of `inflight` that stand for the same suspended handler: a
\* status poll stays the same handler when its record is detached.
SameHandler(e, f) ==
    \/ e = f
    \/ /\ e.kind = "status-known" /\ f.kind = "status-known"
       /\ e.id = f.id /\ e.res = f.res

\* The handlers a step resumes, and the ones it suspends.
Resumed == {e \in inflight : \A f \in inflight' : ~SameHandler(e, f)}
Started == {f \in inflight' : \A e \in inflight : ~SameHandler(e, f)}

\* C11: GET /status-pagamento/:id on a stored record whose status is
\* approved, rejected or cancelled answers with the stored record, issues no
\* gateway query and leaves the store as it was.
C11_TerminalPollIsCached ==
    [][\A id \in DOMAIN pagamentos :
          pagamentos[id].status \in TerminalStatuses
              => /\ \A e \in Started :
                       ~(e.kind \in {"status-known", "status-unknown"} /\ e.id = id)
                 /\ (resp'.op = "status-pagamento" /\ resp'.id = id /\ Resumed = {})
                       => /\ pagamentos' = pagamentos
                          /\ gw' = gw
                          /\ resp' = ResponseData(pagamentos[id], id) @@ [queried |-> FALSE]]_vars

\* An answer given without a gateway query for a stored terminal record.
C11_Witness ==
    /\ resp.op = "status-pagamento" /\ resp.code = 200
    /\ ~resp.queried
    /\ resp.id \in DOMAIN pagamentos
    /\ pagamentos[resp.id].status \in TerminalStatuses
    /\ resp.status = pagamentos[resp.id].status

\* C12: GET /status-pagamento/:id on a stored pending or in_process record
\* queries the gateway and, when the query succeeds, stores the status and
\* status detail the gateway reported before it answers with that status.
C12_PollStoresGatewayStatus ==
    [][\A e \in Resumed :
          (e.kind = "status-known" /\ e.res.ok)
              => /\ e.id \in DOMAIN pagamentos'
                 /\ pagamentos'[e.id].status = e.res.pagamento.status
                 /\ pagamentos'[e.id].statusDetail = e.res.pagamento.status_detail
                 /\ resp'.status = e.res.pagamento.status]_vars

\* C12, amended: the answer always carries the status and status detail the
\* gateway reported; the store takes them when the record the handler read
\* is still the stored one, and is left as it was when that record was
\* removed or replaced during the query.
C12_PollAnswersGatewayStatus ==
    [][\A e \in Resumed :
          (e.kind = "status-known" /\ e.res.ok)
              => /\ resp'.op = "status-pagamento" /\ resp'.code = 200
                 /\ resp'.status = e.res.pagamento.status
                 /\ resp'.statusDetail = e.res.pagamento.status_detail
                 /\ IF e.detached
                    THEN pagamentos' = pagamentos
                    ELSE /\ e.id \in DOMAIN pagamentos
                         /\ pagamentos' =
                               [pagamentos EXCEPT
                                  ![e.id] = [@ EXCEPT
                                      !.status = e.res.pagamento.status,
                                      !.statusDetail = e.res.pagamento.status_detail,
                                      !.updatedAt = now]]]_vars

\* An answer given after a gateway query that moved a stored record of
\* POST /criar-pagamento to approved.
C12_Witness ==
    /\ resp.op = "status-pagamento" /\ resp.code = 200
    /\ resp.queried
    /\ resp.status = "approved" /\ resp.statusDetail = StatusDetail("approved")
    /\ resp.id \in DOMAIN pagamentos
    /\ pagamentos[resp.id].customerEmail # "N/A"
    /\ pagamentos[resp.id].status = "approved"
    /\ pagamentos[resp.id].updatedAt = now

\* C13: for an id that neither the store nor the gateway has,
\* GET /status-pagamento/:id and GET /link-download/:id answer 404 and the
\* store stays as it was.
C13_UnknownIs404 ==
    [][\A e \in Resumed :
          (e.kind \in {"status-unknown", "download-unknown"} /\ e.id \notin DOMAIN gw)
              => /\ resp'.op = IF e.kind = "status-unknown" THEN "status-pagamento"
                               ELSE "link-download"
                 /\ resp'.id = e.id
                 /\ resp'.code = 404
                 /\ pagamentos' = pagamentos]_vars

\* A 404 of the download route for an id unknown to both.
C13_Witness ==
    /\ resp.op = "link-download" /\ resp.code = 404 /\ ~resp.local
    /\ resp.id \notin DOMAIN gw
    /\ resp.id \notin DOMAIN pagamentos

\* C14: GET /api/payments/status-pagamento/:paymentId answers 404 for an id
\* that neither the order store nor the gateway has.
C14_UnknownApiStatusIs404 ==
    (/\ resp.op = "api-status-pagamento"
     /\ resp.id \notin DOMAIN gw
     /\ ~PedidoDe(resp.id).found)
        => resp.code = 404

\* C15: POST /webhook sends its 200 in the step that receives the
\* notification, before the gateway is queried and before the store is
\* written for it; the deferred work starts from the timer that step set
\* and sends no response of its own.
C15_AckBeforeReconciliation ==
    [][/\ \A e \in Started :
             e.kind = "webhook-timer"
                 => /\ resp' = [op |-> "webhook", code |-> 200]
                    /\ pagamentos' = pagamentos
                    /\ gw' = gw
       /\ \A e \in Started :
             e.kind = "webhook-get"
                 => \E t \in Resumed : t.kind = "webhook-timer" /\ t.id = e.id
       /\ resp'.op = "webhook"
             => /\ resp'.code = 200
                /\ pagamentos' = pagamentos
                /\ \A e \in Started : e.kind = "webhook-timer"
       /\ \A e \in Resumed :
             e.kind \in {"webhook-timer", "webhook-get"} => resp'.op # "webhook"]_vars

\* The 200 is out and the reconciliation has not queried the gateway yet.
C15_Witness ==
    /\ resp = [op |-> "webhook", code |-> 200]
    /\ \E e \in inflight : e.kind = "webhook-timer"
    /\ \A e \in inflight : e.kind # "webhook-get"

\* C16: the deferred reconciliation of a notification is a no-op for an id
\* the store does not have (it creates no record, changes none and only
\* logs); for an id the store has it overwrites status, status detail and
\* last-updated-at and nothing else.
C16_ReconcileFrame ==
    [][\A e \in Resumed :
          e.kind = "webhook-get"
              => /\ resp'.op = "log"
                 /\ IF e.id \in DOMAIN pagamentos /\ e.res.ok
                    THEN /\ DOMAIN pagamentos' = DOMAIN pagamentos
                         /\ \A id \in DOMAIN pagamentos \ {e.id} :
                               pagamentos'[id] = pagamentos[id]
                         /\ [pagamentos'[e.id] EXCEPT
                                !.status = pagamentos[e.id].status,
                                !.statusDetail = pagamentos[e.id].statusDetail,
                                !.updatedAt = pagamentos[e.id].updatedAt]
                               = pagamentos[e.id]
                         /\ pagamentos'[e.id].status = e.res.pagamento.status
                         /\ pagamentos'[e.id].statusDetail = e.res.pagamento.status_detail
                         /\ pagamentos'[e.id].updatedAt = now
                    ELSE pagamentos' = pagamentos]_vars

\* A reconciliation found no record for a payment the gateway has.
C16_Witness ==
    /\ resp.op = "log" /\ resp.de = "webhook"
    /\ resp.msg = "Pagamento nao encontrado na memoria"
    /\ resp.id \in DOMAIN gw
    /\ resp.id \notin DOMAIN pagamentos

\* C17: reconciling an approved payment a second time leaves the record as
\* the first time left it, except for last-updated-at.
C17_ReconcileIdempotent ==
    [][\A e \in Resumed :
          (/\ e.kind = "webhook-get" /\ e.res.ok
           /\ e.res.pagamento.status = "approved"
           /\ e.id \in DOMAIN pagamentos)
              => LET once == pagamentos'[e.id]
                 IN  /\ once.status = "approved"
                     /\ \A t \in ClockPoints :
                           /\ AtualizarStatus(once, e.res.pagamento, t)
                                 = [once EXCEPT !.updatedAt = t]
                           /\ AtualizarStatus(once, e.res.pagamento, t).status = "approved"
                     /\ pagamentos[e.id].status = "approved"
                           => once = [pagamentos[e.id] EXCEPT !.updatedAt = now]]_vars

\* A second reconciliation of an approved payment has run.
C17_Witness ==
    /\ resp.op = "log" /\ resp.de = "webhook" /\ resp.msg = "Status atualizado"
    /\ resp.anterior = "approved" /\ resp.status = "approved"
    /\ resp.id \in DOMAIN pagamentos
    /\ pagamentos[resp.id].status = "approved"
    /\ pagamentos[resp.id].updatedAt = now

\* C18: one pass of the sweep removes exactly the records older than one
\* hour, whatever their status, and leaves the others as they were.  Every
\* step of SpecSweep is one pass.
C18_SweepRemovesExactlyTheOld ==
    [][/\ DOMAIN pagamentos' =
             {id \in DOMAIN pagamentos : now - pagamentos[id].criadoEm <= 60 * 60 * 1000}
       /\ \A id \in DOMAIN pagamentos' : pagamentos'[id] = pagamentos[id]]_vars

\* Of an approved record one second younger than an hour and a record the
\* pass removed, the younger one is left.
C18_Witness ==
    /\ resp.op = "log" /\ resp.de = "sweep"
    /\ \E kept \in DOMAIN pagamentos, gone \in AllIds :
          /\ resp.removidos = {gone}
          /\ DOMAIN pagamentos = {kept}
          /\ pagamentos[kept].status = "approved"
          /\ now - pagamentos[kept].criadoEm = 60 * 60 * 1000 - 1000

\* The calls of retryWithBackoff that are suspended, and the one that just
\* finished.
RetryFrames ==
    {[at |-> e.r.at, result |-> e.r.result, calls |-> e.r.calls,
      maxRetries |-> e.r.maxRetries] : e \in {f \in inflight : f.kind = "retry"}}
    \cup (IF resp.op = "retry"
          THEN {[at |-> resp.outcome, result |-> resp.result, calls |-> resp.calls,
                 maxRetries |-> resp.maxRetries]}
          ELSE {})

\* C19: with maxRetries >= 1, fn is invoked at most maxRetries times and
\* never again after an invocation succeeded; a call that returns returns
\* the value of the successful invocation, and a call that throws throws,
\* after maxRetries failed invocations, the error of the last one.
C19_RetryContract ==
    \A r \in RetryFrames :
        r.maxRetries >= 1 =>
            /\ Len(r.calls) <= r.maxRetries
            /\ \A k \in 1..(Len(r.calls) - 1) : ~r.calls[k].ok
            /\ r.at \in {"fn", "timer"} => \A k \in 1..Len(r.calls) : ~r.calls[k].ok
            /\ r.at = "return" =>
                  /\ Len(r.calls) >= 1
                  /\ r.calls[Len(r.calls)].ok
                  /\ r.result = r.calls[Len(r.calls)].v
            /\ r.at = "throw" =>
                  /\ Len(r.calls) = r.maxRetries
                  /\ ~r.calls[Len(r.calls)].ok
                  /\ r.result = r.calls[Len(r.calls)].v
                  /\ r.result # MaxRetriesExceeded

\* A call with three rounds threw the error of the third invocation, which
\* is not the error of the first.
C19_Witness ==
    /\ resp.op = "retry" /\ resp.outcome = "throw"
    /\ resp.maxRetries = 3 /\ Len(resp.calls) = 3
    /\ resp.calls[1].v # resp.calls[3].v
    /\ resp.result = resp.calls[3].v

\* The handlers awaiting a catalog read, and those awaiting the gateway's
\* answer to a create-payment call.
CatalogKinds == {"api-catalog", "legacy-catalog"}
CreateKinds == {"criar", "api-create", "legacy-create"}

OneProductLinks == <<Head(Encontrados(ItemId(Head(OneProductBody.carrinho.items)))).linkDownload>>

\* C21: from the order to the download.  POST /criar-pagamento for a cart
\* with one product of the catalog stores a pending record with that
\* product's download reference; a reconciliation that the gateway answers
\* with approved makes the record approved and keeps the reference; and
\* GET /link-download/:id on the approved record answers 200 with exactly
\* that reference up to 24 hours after the creation and 410 without any
\* reference afterwards.
C21_OrderToDownload ==
    [][/\ (resp'.op = "criar-pagamento" /\ resp'.code = 200) =>
             /\ resp'.id \in DOMAIN pagamentos'
             /\ pagamentos'[resp'.id].status = "pending"
             /\ pagamentos'[resp'.id].links = OneProductLinks
       /\ \A e \in Resumed :
             (/\ e.kind = "webhook-get" /\ e.res.ok
              /\ e.res.pagamento.status = "approved"
              /\ e.id \in DOMAIN pagamentos) =>
                 /\ e.id \in DOMAIN pagamentos'
                 /\ pagamentos'[e.id].status = "approved"
                 /\ pagamentos'[e.id].links = OneProductLinks
                 /\ pagamentos'[e.id].criadoEm = pagamentos[e.id].criadoEm
       /\ (/\ resp'.op = "link-download" /\ resp'.local
           /\ resp'.id \in DOMAIN pagamentos
           /\ pagamentos[resp'.id].status = "approved") =>
              IF now - pagamentos[resp'.id].criadoEm > 24 * 60 * 60 * 1000
              THEN resp'.code = 410 /\ "links" \notin DOMAIN resp'
              ELSE resp'.code = 200 /\ resp'.links = OneProductLinks]_vars

\* The links were handed out for a record a notification made approved.
C21_Witness ==
    /\ LocalDownload
    /\ resp.code = 200
    /\ resp.links = OneProductLinks
    /\ pagamentos[resp.id].status = "approved"
    /\ pagamentos[resp.id].updatedAt # NoTime

\* The statuses the gateway can give a payment after status s.
LaterStatuses(s) ==
    LET one == GatewayMoves(s)
    IN  one \cup UNION {GatewayMoves(t) : t \in one}

\* C22: when a status poll or a deferred reconciliation writes the status
\* of a stored record, the status it writes is the one the record had or one
\* the gateway gives after it: a write never replaces a status by an earlier
\* one, however the answers of concurrent gateway queries are ordered.
C22_WritesNeverOlder ==
    [][\A e \in Resumed :
          (/\ e.kind \in {"webhook-get", "status-known"}
           /\ e.id \in DOMAIN pagamentos /\ e.id \in DOMAIN pagamentos') =>
              \/ pagamentos'[e.id].status = pagamentos[e.id].status
              \/ pagamentos'[e.id].status \in LaterStatuses(pagamentos[e.id].status)]_vars

\* The rows of pedido_itens that belong to an order row.
ItensDe(pedido) == SelectSeq(pedido_itens, LAMBDA item : item.pedido_id = pedido.id)

\* C23: an order is written as a whole.  No status request is answered
\* with an order that has no line items, and when no request is being
\* handled every order row has its line items.
C23_OrderWrittenWhole ==
    /\ (resp.op = "api-status-pagamento" /\ resp.code = 200 /\ resp.pedido.found)
          => resp.pedido.produtos # <<>>
    /\ inflight = {} =>
          \A i \in DOMAIN pedidos : ItensDe(pedidos[i]) # <<>>

\* The call a suspended handler of createOrder or getOrderStatus awaited
\* has failed: the gateway call, the catalog lookup or the insert.
AwaitFailed(e) ==
    \/ /\ e.kind \in {"criar", "status-unknown", "status-known",
                      "api-create", "legacy-create", "api-status-get"}
       /\ ~e.res.ok
    \/ e.kind = "api-catalog" /\ e.catalog # "ok"
    \/ /\ e.kind \in {"api-pedido", "api-itens", "legacy-pedido", "legacy-itens"}
       /\ e.insert # "ok"

\* C24: outside the deferred reconciliation of POST /webhook no failure is
\* swallowed: when the gateway, catalog or store call a handler of
\* createOrder or getOrderStatus awaited has failed, the handler answers
\* with an error.
C24_FailuresAreReported ==
    [][\A e \in Resumed :
          AwaitFailed(e) => (resp'.op # "none" /\ resp'.code >= 400)]_vars

\* The timers of the calls of retryWithBackoff that are suspended and of
\* the one that just finished.
RetryTimers ==
    {[at |-> e.r.at, calls |-> e.r.calls, waits |-> e.r.waits,
      maxRetries |-> e.r.maxRetries, delay |-> e.r.delay] :
        e \in {f \in inflight : f.kind = "retry"}}
    \cup (IF resp.op = "retry"
          THEN {[at |-> resp.outcome, calls |-> resp.calls, waits |-> resp.waits,
                 maxRetries |-> resp.maxRetries, delay |-> resp.delay]}
          ELSE {})

\* C25: the k-th timer retryWithBackoff sets lasts delay * k; it sets one
\* timer after each failed invocation except the last of maxRetries, and
\* none before the first invocation or after a successful one.
C25_LinearBackoff ==
    \A r \in RetryTimers :
        r.maxRetries >= 1 =>
            /\ \A k \in 1..Len(r.waits) : r.waits[k] = r.delay * k
            /\ r.at = "fn" => Len(r.waits) = Len(r.calls)
            /\ r.at = "timer" => Len(r.waits) = Len(r.calls)
            /\ r.at = "return" => Len(r.waits) = Len(r.calls) - 1
            /\ r.at = "throw" => Len(r.waits) = r.maxRetries - 1
            /\ (Len(r.calls) >= 1 /\ r.calls[1].ok) => r.waits = <<>>

\* Three invocations failed with a base delay of 500 ms: the timers were
\* 500 ms and 1000 ms.
C25_Witness ==
    /\ resp.op = "retry" /\ resp.outcome = "throw"
    /\ Len(resp.calls) = 3
    /\ resp.delay = 500
    /\ resp.waits = <<500, 1000>>

\* The store has no record of the payment, or the minimal record of a poll.
NoOrderRecord(id) ==
    \/ id \notin DOMAIN pagamentos
    \/ pagamentos[id].links = <<>> /\ pagamentos[id].products = <<>>

\* C26: once the store has lost the record of a payment, polls,
\* notifications and download requests never bring its links back.  A poll
\* stores at most a record without line items and links, a notification and
\* a download request store nothing, and no download request for the payment
\* is answered with links.
C26_SweptLinksNeverReturn ==
    [][/\ \A id \in AllIds :
             NoOrderRecord(id) =>
                /\ id \in DOMAIN pagamentos' =>
                      /\ pagamentos'[id].links = <<>>
                      /\ pagamentos'[id].products = <<>>
                /\ ~(resp'.op = "link-download" /\ resp'.id = id /\ resp'.code = 200)
       /\ \A e \in Resumed :
             e.kind \in {"webhook-get", "download-unknown"} =>
                DOMAIN pagamentos' \subseteq DOMAIN pagamentos]_vars

\* Less than 24 hours after the order, the gateway has the payment as
\* approved, the store has the approved minimal record of a poll, and the
\* download request is answered 404.
C26_Witness ==
    /\ LocalDownload
    /\ resp.code = 404
    /\ pagamentos[resp.id].status = "approved"
    /\ pagamentos[resp.id].links = <<>>
    /\ resp.id \in DOMAIN gw /\ gw[resp.id].status = "approved"
    /\ now < tempoExpiracao

\* C27: a create request that answers 200 with a payment id has stored the
\* order of that payment: the record in `pagamentos` for server.js, the row
\* in `pedidos` for routes.ts.
C27_CreatedPaymentIsStored ==
    /\ (resp.op = "criar-pagamento" /\ resp.code = 200)
          => resp.id \in DOMAIN pagamentos
    /\ (resp.op \in {"api-criar-pagamento", "legacy-criar-pagamento"} /\ resp.code = 200)
          => \E i \in DOMAIN pedidos : pedidos[i].payment_id = resp.id

\* The gateway has the payment as approved and the store has it as pending
\* or in_process; the store has it as approved.
AwaitsApproval(id) ==
    /\ id \in DOMAIN pagamentos /\ pagamentos[id].status \in {"pending", "in_process"}
    /\ id \in DOMAIN gw /\ gw[id].status = "approved"
StoredApproved(id) == id \in DOMAIN pagamentos /\ pagamentos[id].status = "approved"

\* A step of GET /link-download/:id.
DownloadStep ==
    \/ resp'.op = "link-download"
    \/ \E f \in Started : f.kind = "download-unknown"

\* C28: with polls that the gateway answers and no notification, a stored
\* pending or in_process record of a payment the gateway has approved
\* eventually becomes approved; GET /link-download/:id on a stored approved
\* record inside the 24 hours returns the links of the order; and
\* GET /link-download/:id itself never changes a record.
C28_PollingDeliversLinks ==
    /\ \A id \in PaymentIds : AwaitsApproval(id) ~> StoredApproved(id)
    /\ []((/\ LocalDownload
           /\ pagamentos[resp.id].status = "approved"
           /\ now - pagamentos[resp.id].criadoEm <= tempoExpiracao)
             => (resp.code = 200 /\ resp.links = OneProductLinks))
    /\ [][DownloadStep => pagamentos' = pagamentos]_vars

\* C28, amended: the same, with the links returned when the approved record
\* is the one POST /criar-pagamento stored, and 404 when it is the minimal
\* record a poll stored after the sweep had removed the order.
C28_PollingApproves ==
    /\ \A id \in PaymentIds : AwaitsApproval(id) ~> StoredApproved(id)
    /\ []((/\ LocalDownload
           /\ pagamentos[resp.id].status = "approved"
           /\ now - pagamentos[resp.id].criadoEm <= tempoExpiracao)
             => IF pagamentos[resp.id].products # <<>>
                THEN resp.code = 200 /\ resp.links = OneProductLinks
                ELSE resp.code = 404)
    /\ [][DownloadStep => pagamentos' = pagamentos]_vars

\* The links were handed out for an order a poll made approved.
C28_Witness ==
    /\ LocalDownload
    /\ resp.code = 200
    /\ resp.links = OneProductLinks
    /\ pagamentos[resp.id].products # <<>>
    /\ pagamentos[resp.id].updatedAt # NoTime
    /\ now - pagamentos[resp.id].criadoEm <= tempoExpiracao

\* C29: GET /link-download/:id never changes the store or the gateway.  For
\* an id the store has it answers at once and awaits nothing, and the
\* gateway is asked only for an id the store does not have; the answer of
\* the gateway, whatever it is, stores no record.
C29_DownloadLeavesStore ==
    [][/\ (DownloadStep \/ \E e \in Resumed : e.kind = "download-unknown")
             => pagamentos' = pagamentos /\ gw' = gw
       /\ \A f \in Started :
             f.kind = "download-unknown" => f.id \notin DOMAIN pagamentos
       /\ (resp'.op = "link-download" /\ resp'.local)
             => (Started = {} /\ Resumed = {} /\ resp'.id \in DOMAIN pagamentos)]_vars

\* The gateway has the payment as approved, the store has no record of it,
\* and the download request was answered 404 without one being stored.
C29_Witness ==
    /\ resp.op = "link-download" /\ ~resp.local
    /\ resp.code = 404
    /\ resp.id \in DOMAIN gw /\ gw[resp.id].status = "approved"
    /\ resp.id \notin DOMAIN pagamentos

\* The catalog lookup of a suspended POST /api/payments/criar-pagamento
\* ended with at least one active product.
CatalogFound(e) ==
    /\ e.catalog = "ok"
    /\ Len(ProdutosDoCarrinho(e.body.carrinho.items)) >= 1

\* C30: POST /api/payments/criar-pagamento invokes payment.create only
\* when the body passed the validation and the catalog lookup ended with at
\* least one active product.  A body that fails the validation is answered
\* with an error before the lookup; and when the connectivity test fails,
\* the lookup errors, its timeout fires first or no product is found, the
\* request ends with an error, without a payment and without an order.
C30_CreateAfterCatalog ==
    [][/\ \A f \in Started :
             /\ f.kind = "api-catalog" => SafeParse(f.body) = "ok"
             /\ f.kind = "api-create" =>
                   \E e \in Resumed : /\ e.kind = "api-catalog" /\ e.body = f.body
                                      /\ SafeParse(e.body) = "ok"
                                      /\ CatalogFound(e)
       /\ (resp'.op = "api-criar-pagamento" /\ Resumed = {}) =>
             /\ SafeParse(resp'.req) # "ok"
             /\ resp'.code \in {400, 500}
             /\ Started = {}
             /\ gw' = gw /\ pedidos' = pedidos /\ pedido_itens' = pedido_itens
       /\ \A e \in Resumed :
             (e.kind = "api-catalog" /\ ~CatalogFound(e)) =>
                /\ resp'.op = "api-criar-pagamento"
                /\ resp'.code \in {404, 500, 503}
                /\ Started = {}
                /\ gw' = gw /\ pedidos' = pedidos /\ pedido_itens' = pedido_itens]_vars

\* The connectivity test failed: 503, no payment and no order.
C30_Witness ==
    /\ resp.op = "api-criar-pagamento" /\ resp.code = 503
    /\ SafeParse(resp.req) = "ok"
    /\ DOMAIN gw = {}
    /\ pedidos = <<>> /\ pedido_itens = <<>>

============================================================================
